---- MODULE Spec2Model ----
(***************************************************************************)
(* KnowledgeTrace server: the project / supervision-request domain logic   *)
(* of controllers/projectController.js, controllers/supervisorController.js*)
(* and utils/notificationHelper.js over the document store.                *)
(*                                                                         *)
(* The store is five collections (users, projects, supervisorRequests,     *)
(* notifications, activities).  A handler whose outcome depends on a read  *)
(* that precedes its write (toggleLike, the comment thread handlers,       *)
(* sendRequest) is modelled in two steps, the read and the write, with the *)
(* handler's locals kept in `inflight`; the other handlers are one step.   *)
(***************************************************************************)
EXTENDS Integers, Sequences, FiniteSets, Bags, TLC

(***************************************************************************)
(* Bounds of the model.                                                    *)
(***************************************************************************)
MaxProjects == 2   \* project documents ever inserted
MaxInflight == 2   \* HTTP requests in progress at once
MaxIds      == 3   \* comment / reply ObjectIds ever generated
MaxRequests == 2   \* supervision requests ever inserted
MaxNotifs   == 2   \* notifications ever inserted

(***************************************************************************)
(* Identities.  u1 and u2 have a user record, u3 holds a valid credential  *)
(* but has no record yet; v1 is a supervisor.  Anon is a request without   *)
(* credential (req.user undefined).                                        *)
(***************************************************************************)
Students == {"u1", "u2", "u3"}
Uids     == Students \cup {"v1", "v2"}
Anon     == "anon"
Callers  == Uids \cup {Anon}
Pids     == 1..MaxProjects
Slots    == 1..MaxInflight

VARIABLES
    users,          \* users collection: uid -> user document
    projects,       \* projects collection: _id -> project document
    requests,       \* supervisorRequests collection, in insertion order
    notifications,  \* notifications collection, in insertion order
    notifUp,        \* whether the notifications collection can be reached
    inflight,       \* slot -> locals of the handler running in it
    nextId,         \* ObjectIds generated so far for comments and replies
    resp,           \* the last HTTP response sent
    lastLike,       \* like state of a project just before the last like write
    activities      \* activities collection: userId -> activity document

vars == <<users, projects, requests, notifications, notifUp, inflight, nextId,
          resp, lastLike, activities>>

(***************************************************************************)
(* Text.  A string is a sequence of characters; "A" and "B" are the upper  *)
(* case of "a" and "b".                                                    *)
(***************************************************************************)
NoText == << >>

Lower(ch) == IF ch = "A" THEN "a" ELSE IF ch = "B" THEN "b" ELSE ch

LowerText(t) == [i \in 1..Len(t) |-> Lower(t[i])]

\* { field: { $regex: pat, $options: 'i' } } on a string field, pat being an
\* escaped literal: a case-insensitive substring test.
RegexMatch(pat, text) ==
    LET lt == LowerText(text)
        lp == LowerText(pat)
    IN  \E i \in 1..(Len(text) - Len(pat) + 1) :
            SubSeq(lt, i, i + Len(pat) - 1) = lp

\* the same test on an array field: some element matches
RegexMatchAny(pat, arr) == \E i \in 1..Len(arr) : RegexMatch(pat, arr[i])

(***************************************************************************)
(* Documents.                                                              *)
(***************************************************************************)
NoUser    == [exists |-> FALSE]
NoProject == [exists |-> FALSE]
NoActivity == [exists |-> FALSE]
NoActivities == [u \in Uids |-> NoActivity]
NoResp    == [op |-> "none", caller |-> Anon, code |-> 0]
Idle      == [op |-> "idle"]

StatusLabels == {"pending", "approved", "rejected"}

Min(a, b) == IF a <= b THEN a ELSE b

\* String.prototype.substring(0, n) / Array.prototype.slice(0, n)
Take(s, n) == SubSeq(s, 1, Min(Len(s), n))

\* what the identity provider's token carries: uid, email, name -- no admin claim
TokenName(c) ==
    IF c = "u1" THEN <<"a">> ELSE IF c = "u2" THEN <<"b">>
    ELSE IF c = "v1" THEN <<"A", "b">> ELSE <<"a", "b">>

\* a user document as createOrUpdateUser first stores it
NewUser(uid, role, name, dept) ==
    [exists |-> TRUE, uid |-> uid, isAdmin |-> FALSE, role |-> role, name |-> name,
     department |-> dept, supervisedProjects |-> {}]

\* the users registered at start-up: none of them is an admin
InitUsers ==
    [u \in Uids |->
        IF u = "v1" THEN NewUser(u, "supervisor", TokenName(u), "CSE")
        ELSE IF u = "v2" THEN NewUser(u, "supervisor", TokenName(u), "EEE")
        ELSE IF u = "u3" THEN NoUser
        ELSE NewUser(u, "student", TokenName(u), "")]

\* usersCollection.findOne({ uid })
FindUser(uid) == IF uid \in Uids THEN users[uid] ELSE NoUser

\* the admin flag as it was when the caller's credential was issued
IsAdminAtIssue(c) ==
    c \in Uids /\ InitUsers[c].exists /\ InitUsers[c].isAdmin = TRUE

\* user?.isAdmin === true                       (getAllProjects, requireAdmin)
IsAdminStrict(c) == FindUser(c).exists /\ FindUser(c).isAdmin = TRUE

\* user?.isAdmin || false      (updateProjectStatus, updateProject, deleteProject,
\*                               deleteComment, deleteReply)
IsAdminTruthy(c) == IF FindUser(c).exists THEN FindUser(c).isAdmin ELSE FALSE

\* projectsCollection.findOne({ _id })
FindProject(p) == IF p \in DOMAIN projects THEN projects[p] ELSE NoProject

\* the documents of the projects collection
ProjectDocs == {projects[p] : p \in {q \in Pids : projects[q].exists}}

(***************************************************************************)
(* getAllProjects: GET /projects                                           *)
(***************************************************************************)
\* the current year, new Date().getFullYear()
CurrentYear == 2026
MinYear     == 2000

NoQuery == [techStack |-> NoText, author |-> NoText, year |-> 0,
            supervisor |-> NoText, keywords |-> NoText]

\* { $or: [ { status: 'approved' }, { status: 'pending', authorId: uid } ] }
StatusFilter(uid) == [kind |-> "status", uid |-> uid, pat |-> NoText]

\* { $or: [ { title: regex }, { abstract: regex }, { tags: regex } ] }
KeywordFilter(pat) == [kind |-> "keywords", uid |-> Anon, pat |-> pat]

NoFilter == [kind |-> "none", uid |-> Anon, pat |-> NoText]

MatchFilter(f, d) ==
    CASE f.kind = "status" ->
            \/ d.status = "approved"
            \/ d.status = "pending" /\ d.authorId = f.uid
      [] f.kind = "keywords" ->
            \/ RegexMatch(f.pat, d.title)
            \/ RegexMatch(f.pat, d.abstract.text)
            \/ RegexMatchAny(f.pat, d.tags)
      [] OTHER -> TRUE

\* the status part without the default of the unauthenticated branch
StatusQueryNoDefault(c, isAdmin) ==
    IF isAdmin \/ c = Anon THEN [statusFilter |-> NoFilter, status |-> ""]
    ELSE [statusFilter |-> StatusFilter(c), status |-> ""]

\* the status part of the query the handler builds: statusFilter and query.status
StatusQuery(c, isAdmin) ==
    IF isAdmin THEN [statusFilter |-> NoFilter, status |-> ""]
    ELSE IF c # Anon THEN [statusFilter |-> StatusFilter(c), status |-> ""]
    ELSE [statusFilter |-> NoFilter, status |-> "approved"]

\* the keywords put in query.$or whether or not a status filter is pending
KeywordQueryOrOnly(statusFilter, keywords) ==
    IF keywords # NoText
    THEN [and |-> << >>, or |-> KeywordFilter(keywords)]
    ELSE IF statusFilter.kind # "none"
         THEN [and |-> <<statusFilter>>, or |-> NoFilter]
         ELSE [and |-> << >>, or |-> NoFilter]

\* how the keywords are combined with the status filter: query.$and, query.$or
KeywordQuery(statusFilter, keywords) ==
    IF keywords # NoText
    THEN IF statusFilter.kind # "none"
         THEN [and |-> <<statusFilter, KeywordFilter(keywords)>>, or |-> NoFilter]
         ELSE [and |-> << >>, or |-> KeywordFilter(keywords)]
    ELSE IF statusFilter.kind # "none"
         THEN [and |-> <<statusFilter>>, or |-> NoFilter]
         ELSE [and |-> << >>, or |-> NoFilter]

\* the MongoDB query object of getAllProjects
BuildQuery(c, isAdmin, q) ==
    LET sq == StatusQuery(c, isAdmin)
        kq == KeywordQuery(sq.statusFilter, q.keywords)
    IN  [status     |-> sq.status,
         techStack  |-> q.techStack,
         author     |-> q.author,
         year       |-> IF q.year >= MinYear /\ q.year <= CurrentYear + 1
                        THEN q.year ELSE 0,
         supervisor |-> q.supervisor,
         and        |-> kq.and,
         or         |-> kq.or]

\* collection.find(query): every top-level key of the query must hold of d
MongoMatch(query, d) ==
    /\ query.status = "" \/ d.status = query.status
    /\ query.techStack = NoText \/ RegexMatchAny(query.techStack, d.techStack)
    /\ query.author = NoText \/ RegexMatch(query.author, d.author)
    /\ query.year = 0 \/ d.year = query.year
    /\ query.supervisor = NoText \/ RegexMatch(query.supervisor, d.supervisor)
    /\ \A i \in 1..Len(query.and) : MatchFilter(query.and[i], d)
    /\ MatchFilter(query.or, d)

\* the response of getAllProjects for caller c and query string q; lookupFails:
\* the users collection throws while the admin flag is read
getAllProjects(c, q, lookupFails) ==
    LET isAdmin == c # Anon /\ ~lookupFails /\ IsAdminStrict(c)
        query   == BuildQuery(c, isAdmin, q)
    IN  [code |-> 200, body |-> {d \in ProjectDocs : MongoMatch(query, d)}]

\* the response of getProjectById
getProjectById(c, p) ==
    LET project == FindProject(p)
    IN  IF ~project.exists THEN [code |-> 404, body |-> {}]
        ELSE IF c = Anon /\ project.status # "approved" THEN [code |-> 403, body |-> {}]
        ELSE [code |-> 200, body |-> {project}]

(***************************************************************************)
(* utils/notificationHelper.js                                             *)
(***************************************************************************)
\* the notifications collection answers (it fails once MaxNotifs are stored)
NotifAvailable(ns) == notifUp /\ BagCardinality(ns) < MaxNotifs

\* createNotification without the test for a sender who is the recipient
createNotificationToSelf(ns, recipientId, senderId, type, projectId) ==
    IF ~NotifAvailable(ns) THEN ns
    ELSE ns (+) SetToBag({[userId        |-> recipientId,
                           type          |-> type,
                           relatedUserId |-> IF senderId = "system" THEN "" ELSE senderId,
                           projectId     |-> projectId,
                           read          |-> FALSE]})

\* createNotification on the collection content ns; every failure is swallowed
createNotification(ns, recipientId, senderId, type, projectId) ==
    IF recipientId = senderId /\ senderId # "system" THEN ns
    ELSE IF ~NotifAvailable(ns) THEN ns
    ELSE ns (+) SetToBag({[userId        |-> recipientId,
                           type          |-> type,
                           relatedUserId |-> IF senderId = "system" THEN "" ELSE senderId,
                           projectId     |-> projectId,
                           read          |-> FALSE]})

\* notifyAdmins: one createNotification per user with isAdmin: true
RECURSIVE notifyAdmins(_, _, _, _, _)
notifyAdmins(ns, admins, senderId, type, projectId) ==
    IF admins = {} THEN ns
    ELSE LET a == CHOOSE x \in admins : TRUE
         IN  notifyAdmins(createNotification(ns, a, senderId, type, projectId),
                          admins \ {a}, senderId, type, projectId)

\* the submission notifications without the confirmation to the student
createProjectSubmissionNotificationAdminsOnly(ns, studentId, projectId) ==
    LET admins == {u \in Uids : users[u].exists /\ users[u].isAdmin = TRUE}
    IN  notifyAdmins(ns, admins, studentId, "project_submission", projectId)

createProjectSubmissionNotification(ns, studentId, projectId) ==
    LET admins == {u \in Uids : users[u].exists /\ users[u].isAdmin = TRUE}
        ns1    == notifyAdmins(ns, admins, studentId, "project_submission", projectId)
    IN  createNotification(ns1, studentId, "system", "project_status", projectId)

createProjectStatusUpdateNotification(ns, studentId, projectId) ==
    createNotification(ns, studentId, "system", "project_status", projectId)

(***************************************************************************)
(* createProject: POST /projects                                           *)
(***************************************************************************)
MaxTitleLen    == 200
MinAbstractLen == 100
MaxAbstractLen == 5000
MaxTechStack   == 20
MaxTags        == 10

\* the _id of the next inserted project: ObjectIds are never reused
FreshPids == {p \in Pids : projects[p] = NoProject}
NextPid   == CHOOSE p \in FreshPids : \A q \in FreshPids : p <= q

\* what is left of a deleted document: nothing, but its _id stays used
GoneProject == [exists |-> FALSE, gone |-> TRUE]

\* uploadToCloudinary throws ("fail") or resolves to no URL ("nourl")
UploadFailures == {"fail", "nourl"}

\* the upload's outcome ignored: the document is stored without its PDF
CreateValidationUploadIgnored(body) ==
    IF Len(body.title) = 0 THEN "VALIDATION_ERROR"
    ELSE IF Len(body.title) > MaxTitleLen THEN "VALIDATION_ERROR"
    ELSE IF body.abstract.rawLen = 0 THEN "VALIDATION_ERROR"
    ELSE IF body.abstract.plainLen < MinAbstractLen THEN "VALIDATION_ERROR"
    ELSE IF body.abstract.plainLen > MaxAbstractLen THEN "VALIDATION_ERROR"
    ELSE IF body.supervisorId # ""
            /\ ~(FindUser(body.supervisorId).exists
                 /\ FindUser(body.supervisorId).role = "supervisor")
         THEN "INVALID_SUPERVISOR"
    ELSE IF body.githubLink \notin {"", "github.com", "www.github.com"}
         THEN "VALIDATION_ERROR"
    ELSE "ok"

\* the first validation failure of the request body, or "ok"
CreateValidation(body) ==
    IF Len(body.title) = 0 THEN "VALIDATION_ERROR"
    ELSE IF Len(body.title) > MaxTitleLen THEN "VALIDATION_ERROR"
    ELSE IF body.abstract.rawLen = 0 THEN "VALIDATION_ERROR"
    ELSE IF body.abstract.plainLen < MinAbstractLen THEN "VALIDATION_ERROR"
    ELSE IF body.abstract.plainLen > MaxAbstractLen THEN "VALIDATION_ERROR"
    ELSE IF body.file \in UploadFailures THEN "UPLOAD_ERROR"
    ELSE IF body.supervisorId # ""
            /\ ~(FindUser(body.supervisorId).exists
                 /\ FindUser(body.supervisorId).role = "supervisor")
         THEN "INVALID_SUPERVISOR"
    ELSE IF body.githubLink \notin {"", "github.com", "www.github.com"}
         THEN "VALIDATION_ERROR"
    ELSE "ok"

\* the supervisor triple: verified reference, or legacy free-text name
SupervisorFields(body) ==
    IF body.supervisorId # ""
    THEN [supervisor           |-> FindUser(body.supervisorId).name,
          supervisorId         |-> body.supervisorId,
          supervisorDepartment |-> FindUser(body.supervisorId).department]
    ELSE [supervisor |-> Take(body.supervisor, 100), supervisorId |-> "",
          supervisorDepartment |-> ""]

ValidatedYear(year) ==
    IF year >= MinYear /\ year <= CurrentYear + 1 THEN year ELSE CurrentYear

\* projectData, with the _id the insert gives it
ProjectData(c, p, body) ==
    LET sup == SupervisorFields(body)
    IN  [exists    |-> TRUE,
         _id       |-> p,
         title     |-> Take(body.title, MaxTitleLen),
         abstract  |-> [rawLen   |-> Min(body.abstract.rawLen, MaxAbstractLen),
                        plainLen |-> body.abstract.plainLen,
                        text     |-> body.abstract.text],
         techStack |-> Take(body.techStack, MaxTechStack),
         tags      |-> Take(body.tags, MaxTags),
         author    |-> IF body.author # NoText THEN Take(body.author, 100)
                       ELSE TokenName(c),
         authorId  |-> c,
         supervisor           |-> sup.supervisor,
         supervisorId         |-> sup.supervisorId,
         supervisorDepartment |-> sup.supervisorDepartment,
         year       |-> ValidatedYear(body.year),
         githubLink |-> body.githubLink,
         pdfUrl     |-> IF body.file = "ok" THEN "url" ELSE "",
         status     |-> "pending",
         likes |-> {}, likeCount |-> 0,
         comments |-> << >>, commentCount |-> 0]

createProject(c, body) ==
    /\ c \in Uids
    /\ FreshPids # {}
    /\ LET v == CreateValidation(body) IN
       IF v # "ok"
       THEN /\ resp' = [op |-> "createProject", caller |-> c,
                        code |-> IF v = "UPLOAD_ERROR" THEN 500 ELSE 400]
            /\ UNCHANGED <<projects, notifications>>
       ELSE /\ projects' = [projects EXCEPT ![NextPid] = ProjectData(c, NextPid, body)]
            /\ notifications' =
                   createProjectSubmissionNotification(notifications, c, NextPid)
            /\ resp' = [op |-> "createProject", caller |-> c, code |-> 201]
    /\ UNCHANGED <<users, requests, notifUp, inflight, nextId, lastLike, activities>>

(***************************************************************************)
(* updateProjectStatus, updateProject, deleteProject                       *)
(***************************************************************************)
\* the ownership test left out: any registered user passes
CanMutateAnyUser(c, project) == FindUser(c).exists \/ project.authorId = c

\* if (!isAdmin && project.authorId !== req.user.uid) return 403
CanMutate(c, project) == IsAdminTruthy(c) \/ project.authorId = c

updateProjectStatus(c, p, status) ==
    /\ c \in Uids
    /\ LET project == FindProject(p)
           code    == IF ~project.exists THEN 404
                      ELSE IF ~CanMutate(c, project) THEN 403
                      ELSE IF status \notin StatusLabels THEN 400
                      ELSE 200
       IN  /\ resp' = [op |-> "updateProjectStatus", caller |-> c, code |-> code]
           /\ IF code = 200
              THEN /\ projects' = [projects EXCEPT ![p].status = status]
                   /\ notifications' =
                          IF status # "pending"
                          THEN createProjectStatusUpdateNotification(
                                   notifications, project.authorId, p)
                          ELSE notifications
              ELSE UNCHANGED <<projects, notifications>>
    /\ UNCHANGED <<users, requests, notifUp, inflight, nextId, lastLike, activities>>

\* a schema that accepts a decision only
updateProjectStatusSchemaDecision(status) == status \in {"approved", "rejected"}

\* updateProjectStatusSchema: status is one of the three labels
updateProjectStatusSchema(status) == status \in StatusLabels

\* PATCH /projects/:id/status: validate(updateProjectStatusSchema) answers
\* 400 before the handler is reached
PatchProjectStatus(c, p, status) ==
    IF updateProjectStatusSchema(status)
    THEN updateProjectStatus(c, p, status)
    ELSE /\ c \in Uids
         /\ resp' = [op |-> "updateProjectStatus", caller |-> c, code |-> 400]
         /\ UNCHANGED <<users, projects, requests, notifications, notifUp,
                        inflight, nextId, lastLike, activities>>

NoUpdate == [title |-> NoText, techStack |-> << >>, tags |-> << >>, year |-> 0,
             githubLink |-> "", supervisorId |-> "", supervisor |-> NoText]

\* updateData applied to the stored document ($set)
UpdateData(project, body) ==
    LET d1 == IF body.title # NoText
              THEN [project EXCEPT !.title = Take(body.title, MaxTitleLen)]
              ELSE project
        d2 == IF body.techStack # << >>
              THEN [d1 EXCEPT !.techStack = Take(body.techStack, MaxTechStack)]
              ELSE d1
        d3 == IF body.tags # << >>
              THEN [d2 EXCEPT !.tags = Take(body.tags, MaxTags)]
              ELSE d2
        d4 == IF body.year # 0 THEN [d3 EXCEPT !.year = body.year] ELSE d3
        d5 == IF body.githubLink # ""
              THEN [d4 EXCEPT !.githubLink = body.githubLink]
              ELSE d4
        sup == FindUser(body.supervisorId)
    IN  IF body.supervisorId # ""
        THEN IF sup.exists /\ sup.role = "supervisor"
             THEN [d5 EXCEPT !.supervisorId = body.supervisorId,
                             !.supervisor = sup.name,
                             !.supervisorDepartment = sup.department]
             ELSE d5
        ELSE IF body.supervisor # NoText
                /\ Take(body.supervisor, 100) # project.supervisor
             THEN [d5 EXCEPT !.supervisor = Take(body.supervisor, 100),
                             !.supervisorId = "",
                             !.supervisorDepartment = ""]
             ELSE d5

updateProject(c, p, body) ==
    /\ c \in Uids
    /\ LET project == FindProject(p)
           code    == IF ~project.exists THEN 404
                      ELSE IF ~CanMutate(c, project) THEN 403
                      ELSE 200
       IN  /\ resp' = [op |-> "updateProject", caller |-> c, code |-> code]
           /\ projects' = IF code = 200
                          THEN [projects EXCEPT ![p] = UpdateData(project, body)]
                          ELSE projects
    /\ UNCHANGED <<users, requests, notifications, notifUp, inflight, nextId, lastLike,
                   activities>>

\* a delete that also takes the project out of every supervisedProjects set
deleteProjectCascade(c, p) ==
    /\ c \in Uids
    /\ LET project == FindProject(p)
           code    == IF ~project.exists THEN 404
                      ELSE IF ~CanMutate(c, project) THEN 403
                      ELSE 200
       IN  /\ resp' = [op |-> "deleteProject", caller |-> c, code |-> code]
           /\ projects' = IF code = 200
                          THEN [projects EXCEPT ![p] = GoneProject]
                          ELSE projects
           /\ users' = IF code = 200
                       THEN [u \in Uids |->
                               IF users[u].exists
                               THEN [users[u] EXCEPT !.supervisedProjects = @ \ {p}]
                               ELSE users[u]]
                       ELSE users
    /\ UNCHANGED <<requests, notifications, notifUp, inflight, nextId, lastLike,
                   activities>>

deleteProject(c, p) ==
    /\ c \in Uids
    /\ LET project == FindProject(p)
           code    == IF ~project.exists THEN 404
                      ELSE IF ~CanMutate(c, project) THEN 403
                      ELSE 200
       IN  /\ resp' = [op |-> "deleteProject", caller |-> c, code |-> code]
           /\ projects' = IF code = 200
                          THEN [projects EXCEPT ![p] = GoneProject]
                          ELSE projects
    /\ UNCHANGED <<users, requests, notifications, notifUp, inflight, nextId, lastLike,
                   activities>>

(***************************************************************************)
(* Out-of-band administration: scripts/set-admin.js sets isAdmin on a user *)
(* document; an operator may clear it again.  Credentials are not touched. *)
(***************************************************************************)
setAdmin(u) ==
    /\ users[u].exists
    /\ users' = [users EXCEPT ![u].isAdmin = TRUE]
    /\ UNCHANGED <<projects, requests, notifications, notifUp, inflight, nextId,
                   resp, lastLike, activities>>

revokeAdmin(u) ==
    /\ users[u].exists
    /\ users[u].isAdmin
    /\ users' = [users EXCEPT ![u].isAdmin = FALSE]
    /\ UNCHANGED <<projects, requests, notifications, notifUp, inflight, nextId,
                   resp, lastLike, activities>>

(***************************************************************************)
(* The read handlers as steps: the response is sent, nothing is written.   *)
(***************************************************************************)
GetAllProjects(c, q, lookupFails) ==
    /\ resp' = [op |-> "getAllProjects", caller |-> c,
                code |-> getAllProjects(c, q, lookupFails).code]
    /\ UNCHANGED <<users, projects, requests, notifications, notifUp, inflight,
                   nextId, lastLike, activities>>

GetProjectById(c, p) ==
    /\ resp' = [op |-> "getProjectById", caller |-> c,
                code |-> getProjectById(c, p).code]
    /\ UNCHANGED <<users, projects, requests, notifications, notifUp, inflight,
                   nextId, lastLike, activities>>

\* requireAdmin: the status the middleware answers with, 200 standing for next()
requireAdmin(c) ==
    IF c = Anon THEN 401
    ELSE IF ~FindUser(c).exists THEN 403
    ELSE IF FindUser(c).isAdmin # TRUE THEN 403
    ELSE 200

\* GET /admin/projects/pending behind verifyToken, requireAdmin
GetPendingProjects(c) ==
    /\ c \in Uids
    /\ resp' = [op |-> "getPendingProjects", caller |-> c, code |-> requireAdmin(c)]
    /\ UNCHANGED <<users, projects, requests, notifications, notifUp, inflight,
                   nextId, lastLike, activities>>

(***************************************************************************)
(* The store after start-up: the registered users, no project, no request. *)
(***************************************************************************)
NoLike == [pid |-> 0, caller |-> Anon, member |-> FALSE, count |-> 0]

InitStore ==
    /\ users = InitUsers
    /\ projects = [p \in Pids |-> NoProject]
    /\ requests = << >>
    /\ notifications = EmptyBag
    /\ inflight = [s \in Slots |-> Idle]
    /\ nextId = 0
    /\ resp = NoResp
    /\ lastLike = NoLike
    /\ activities = NoActivities

(***************************************************************************)
(* Access policy: u1 submits projects; u1, u2 and u3 try to edit, moderate *)
(* and delete them while u2's admin flag is granted and revoked out of     *)
(* band; everybody reads.  The notification store is unreachable.          *)
(***************************************************************************)
Titles == {<<"a">>, <<"B">>}

ValidAbstract == [rawLen |-> 150, plainLen |-> 120, text |-> <<"a", "b">>]

CreateBody(title, plainLen) ==
    [title |-> title,
     abstract |-> [ValidAbstract EXCEPT !.plainLen = plainLen],
     file |-> "none", techStack |-> << <<"a">> >>, tags |-> << <<"b">> >>,
     author |-> NoText, supervisorId |-> "", supervisor |-> NoText,
     year |-> 2025, githubLink |-> ""]

AccessCreateBodies == {CreateBody(<<"a">>, n) : n \in {80, 120}}

AccessUpdateBodies == {[NoUpdate EXCEPT !.title = t] : t \in Titles}

Queries ==
    [techStack : {NoText, <<"a">>}, author : {NoText, <<"b">>},
     year : {0, 1999, 2025}, supervisor : {NoText, <<"a">>},
     keywords : {NoText, <<"a">>, <<"b">>}]

\* the query strings sent in the runs; the claims range over all of Queries
AccessQueries == {[NoQuery EXCEPT !.keywords = <<"b">>]}

InitAccess == InitStore /\ notifUp = FALSE

NextAccess ==
    \/ \E body \in AccessCreateBodies : createProject("u1", body)
    \/ \E c \in Students, p \in Pids, s \in StatusLabels \cup {"archived"} :
           PatchProjectStatus(c, p, s)
    \/ \E c \in Students, p \in Pids, body \in AccessUpdateBodies :
           updateProject(c, p, body)
    \/ \E c \in Students, p \in Pids : deleteProject(c, p)
    \/ setAdmin("u2")
    \/ revokeAdmin("u2")
    \/ \E c \in Students \cup {Anon}, q \in AccessQueries, f \in BOOLEAN :
           GetAllProjects(c, q, f)
    \/ \E c \in Students \cup {Anon}, p \in Pids : GetProjectById(c, p)
    \/ \E c \in Students : GetPendingProjects(c)

SpecAccess == InitAccess /\ [][NextAccess]_vars

(***************************************************************************)
(* Claims on the access policy (SpecAccess).                               *)
(***************************************************************************)
\* C1: whatever the query filters, the list an anonymous caller gets from
\* GET /projects holds approved projects only.
C1_AnonymousListOnlyApproved ==
    \A q \in Queries :
        \A d \in getAllProjects(Anon, q, FALSE).body : d.status = "approved"

\* an anonymous list request was answered while a pending and an approved
\* project were stored: the list holds one of the two
C1_Witness ==
    /\ resp.op = "getAllProjects" /\ resp.caller = Anon
    /\ \E d \in ProjectDocs : d.status = "pending"
    /\ \E d \in ProjectDocs : d.status = "approved"
    /\ Cardinality(getAllProjects(Anon, NoQuery, FALSE).body) = 1

\* the visibility predicate of an authenticated caller who is not an admin
VisibleTo(c, d) ==
    d.status = "approved" \/ (d.status = "pending" /\ d.authorId = c)

\* C2: an authenticated caller whose stored isAdmin is not true gets only
\* approved projects and the caller's own pending ones, and without filters
\* exactly those.
C2_NonAdminList ==
    \A c \in Students :
        ~IsAdminStrict(c) =>
            /\ \A q \in Queries :
                   \A d \in getAllProjects(c, q, FALSE).body : VisibleTo(c, d)
            /\ \A f \in BOOLEAN :
                   getAllProjects(c, NoQuery, f).body
                       = {d \in ProjectDocs : VisibleTo(c, d)}

\* u2, not an admin, listed the projects while a pending and an approved
\* project of u1 were stored: u2 gets one of them, u1 both
C2_Witness ==
    /\ resp.op = "getAllProjects" /\ resp.caller = "u2"
    /\ ~IsAdminStrict("u2")
    /\ \E d \in ProjectDocs : d.status = "pending" /\ d.authorId = "u1"
    /\ \E d \in ProjectDocs : d.status = "approved"
    /\ Cardinality(getAllProjects("u2", NoQuery, FALSE).body) = 1
    /\ Cardinality(getAllProjects("u1", NoQuery, FALSE).body) = 2

\* C3: a single-project read of a project that is not approved, by a caller
\* who is neither its author nor an admin, is refused (403 or 404).
C3_NonOwnerReadDenied ==
    \A c \in Callers, p \in Pids :
        (/\ projects[p].exists
         /\ projects[p].status # "approved"
         /\ projects[p].authorId # c
         /\ ~IsAdminStrict(c))
            => getProjectById(c, p).code \in {403, 404}

MutationOps == {"updateProjectStatus", "updateProject", "deleteProject"}

\* the caller may change the project: stored isAdmin true, or the author
Authorised(c, project) == IsAdminStrict(c) \/ project.authorId = c

\* the step is the answer of handler op to caller c
Answers(op, c) == resp'.op = op /\ resp'.caller = c

\* a call of one of the three handlers by c on p that must be refused is
\* answered 403 and leaves the projects as they are
RefusedUnchanged(c, p) ==
    LET refused == resp'.code = 403 /\ projects' = projects
    IN  /\ \A s \in StatusLabels \cup {"archived"} :
               (Answers("updateProjectStatus", c) /\ updateProjectStatus(c, p, s))
                   => refused
        /\ \A body \in AccessUpdateBodies :
               (Answers("updateProject", c) /\ updateProject(c, p, body)) => refused
        /\ (Answers("deleteProject", c) /\ deleteProject(c, p)) => refused

\* C4: a stored project is changed or removed only by updateProjectStatus,
\* updateProject or deleteProject called by an admin or by its author; every
\* other authenticated caller gets 403 and the project stays as it is.
C4_MutationRights ==
    [][ /\ \A p \in Pids :
               (projects[p].exists /\ projects'[p] # projects[p])
                   => /\ resp'.op \in MutationOps
                      /\ Authorised(resp'.caller, projects[p])
        /\ \A c \in Students, p \in Pids :
               (projects[p].exists /\ ~Authorised(c, projects[p]))
                   => RefusedUnchanged(c, p)
      ]_vars

\* u2, not an admin, was refused on a project of u1, which is still stored
C4_Witness ==
    /\ resp.op \in MutationOps /\ resp.caller = "u2" /\ resp.code = 403
    /\ ~IsAdminStrict("u2")
    /\ \E d \in ProjectDocs : d.authorId = "u1" /\ d.title = <<"B">>

\* what a privileged request of u is decided with, in the current store
DecidedAsAdmin(u) ==
    /\ requireAdmin(u) = 200
    /\ getAllProjects(u, NoQuery, FALSE).body = ProjectDocs
    /\ IsAdminTruthy(u)
    /\ \A d \in ProjectDocs : CanMutate(u, d)

DecidedAsNonAdmin(u) ==
    /\ requireAdmin(u) = 403
    /\ getAllProjects(u, NoQuery, FALSE).body = {d \in ProjectDocs : VisibleTo(u, d)}
    /\ ~IsAdminTruthy(u)
    /\ \A d \in ProjectDocs : CanMutate(u, d) <=> d.authorId = u

\* the answer of a handler step of caller c agrees with the flag stored for c
AnsweredFromStore(c) ==
    LET asStored == resp'.code = 200 <=> IsAdminStrict(c)
    IN  /\ (Answers("getPendingProjects", c) /\ GetPendingProjects(c)) => asStored
        /\ \A p \in Pids :
               (projects[p].exists /\ projects[p].authorId # c)
                   => /\ \A s \in StatusLabels :
                          (Answers("updateProjectStatus", c)
                              /\ updateProjectStatus(c, p, s)) => asStored
                      /\ \A body \in AccessUpdateBodies :
                          (Answers("updateProject", c)
                              /\ updateProject(c, p, body)) => asStored
                      /\ (Answers("deleteProject", c) /\ deleteProject(c, p))
                              => asStored

\* C5: the admin flag is read from the user record on every privileged
\* request: right after an out-of-band grant (revocation) the caller's
\* requests are decided as an admin's (a non-admin's), credential unchanged.
C5_AdminReadFromStore ==
    [][ /\ \A u \in Uids : (users' # users /\ setAdmin(u)) => DecidedAsAdmin(u)'
        /\ \A u \in Uids : (users' # users /\ revokeAdmin(u)) => DecidedAsNonAdmin(u)'
        /\ \A c \in Students : AnsweredFromStore(c)
      ]_vars

\* u2, registered as a non-admin, passed requireAdmin after a grant
C5_Witness ==
    /\ resp.op = "getPendingProjects" /\ resp.caller = "u2" /\ resp.code = 200
    /\ ~InitUsers["u2"].isAdmin
    /\ ProjectDocs # {}

(***************************************************************************)
(* toggleLike: POST /projects/:id/like.  The handler reads the project,    *)
(* decides like or unlike from the likes it read, notifies the author of a *)
(* like, and then sends one update ($pull or $addToSet, with $inc).        *)
(***************************************************************************)
\* the unlike that pulls the identity but leaves the counter
LikeUpdateNoDec(doc, userId, hasLiked) ==
    IF hasLiked
    THEN [doc EXCEPT !.likes = @ \ {userId}]
    ELSE [doc EXCEPT !.likes = @ \cup {userId}, !.likeCount = @ + 1]

\* the unlike that decrements the counter but leaves the identity
LikeUpdateNoPull(doc, userId, hasLiked) ==
    IF hasLiked
    THEN [doc EXCEPT !.likeCount = @ - 1]
    ELSE [doc EXCEPT !.likes = @ \cup {userId}, !.likeCount = @ + 1]

\* updateOperation applied to the stored document
LikeUpdate(doc, userId, hasLiked) ==
    IF hasLiked
    THEN [doc EXCEPT !.likes = @ \ {userId}, !.likeCount = @ - 1]
    ELSE [doc EXCEPT !.likes = @ \cup {userId}, !.likeCount = @ + 1]

\* the handler up to its update: findOne, hasLiked, the like notification
ToggleLikeBegin(s, c, p) ==
    /\ inflight[s] = Idle
    /\ c \in Uids
    /\ LET project == FindProject(p) IN
       IF ~project.exists
       THEN /\ resp' = [op |-> "toggleLike", caller |-> c, code |-> 404]
            /\ UNCHANGED <<inflight, notifications>>
       ELSE /\ inflight' = [inflight EXCEPT ![s] =
                   [op |-> "toggleLike", caller |-> c, pid |-> p,
                    hasLiked |-> c \in project.likes]]
            /\ notifications' =
                   IF c \notin project.likes /\ project.authorId # c
                   THEN createNotification(notifications, project.authorId, c,
                                           "like", p)
                   ELSE notifications
            /\ UNCHANGED resp
    /\ UNCHANGED <<users, projects, requests, notifUp, nextId, lastLike, activities>>

\* updateOne(updateOperation), findOne, res.json
ToggleLikeWrite(s) ==
    /\ inflight[s].op = "toggleLike"
    /\ LET c == inflight[s].caller
           p == inflight[s].pid
       IN  IF projects[p].exists
           THEN /\ projects' = [projects EXCEPT
                       ![p] = LikeUpdate(@, c, inflight[s].hasLiked)]
                /\ lastLike' = [pid |-> p, caller |-> c,
                                member |-> c \in projects[p].likes,
                                count |-> projects[p].likeCount]
                /\ resp' = [op |-> "toggleLike", caller |-> c, code |-> 200]
           ELSE /\ resp' = [op |-> "toggleLike", caller |-> c, code |-> 500]
                /\ UNCHANGED <<projects, lastLike>>
    /\ inflight' = [inflight EXCEPT ![s] = Idle]
    /\ UNCHANGED <<users, requests, notifications, notifUp, nextId, activities>>

\* a request of caller c on project p is in progress
InFlight(c, p) ==
    \E s \in Slots : /\ inflight[s] # Idle
                     /\ inflight[s].caller = c
                     /\ inflight[s].pid = p

(***************************************************************************)
(* Likes: u1's project 1, approved and without likes, is liked and unliked *)
(* by u1, u2 and u3; requests of different callers overlap, a caller sends *)
(* the next request after the answer to the previous one.                  *)
(***************************************************************************)
ApprovedProject(p, c) ==
    [ProjectData(c, p, CreateBody(<<"a">>, 120)) EXCEPT !.status = "approved"]

InitLikes ==
    /\ users = InitUsers
    /\ projects = [p \in Pids |-> IF p = 1 THEN ApprovedProject(1, "u1")
                                          ELSE NoProject]
    /\ requests = << >>
    /\ notifications = EmptyBag
    /\ notifUp = TRUE
    /\ inflight = [s \in Slots |-> Idle]
    /\ nextId = 0
    /\ resp = NoResp
    /\ lastLike = NoLike
    /\ activities = NoActivities

NextLikes ==
    \/ \E s \in Slots, c \in Students, p \in Pids :
           ~InFlight(c, p) /\ ToggleLikeBegin(s, c, p)
    \/ \E s \in Slots : ToggleLikeWrite(s)

SpecLikes == InitLikes /\ [][NextLikes]_vars

\* C6: after any number of completed toggleLike calls by distinct callers on
\* a project that started without likes, likeCount equals the number of
\* identities in likes (requests still between their read and their write
\* have changed nothing yet, so the equality holds in every state).
C6_LikeCountIsLikes ==
    \A p \in Pids :
        projects[p].exists =>
            projects[p].likeCount = Cardinality(projects[p].likes)

C6_Witness ==
    /\ resp = [op |-> "toggleLike", caller |-> "u3", code |-> 200]
    /\ lastLike.member
    /\ projects[1].likes = {"u1", "u2"}
    /\ projects[1].likeCount = 2

\* C7: when a caller's toggleLike on a project completes and the previous
\* completed toggleLike was the same caller's on the same project (the
\* second call began after the first had completed), the caller's
\* membership in likes and the likeCount are back to what they were before
\* the first of the two calls.
C7_DoubleToggleRestores ==
    [][\A s \in Slots :
          ( /\ inflight[s].op = "toggleLike"
            /\ lastLike.caller = inflight[s].caller
            /\ lastLike.pid = inflight[s].pid
            /\ ToggleLikeWrite(s) )
          => /\ (lastLike.caller \in projects'[lastLike.pid].likes)
                    = lastLike.member
             /\ projects'[lastLike.pid].likeCount = lastLike.count]_vars

C7_Witness ==
    /\ resp = [op |-> "toggleLike", caller |-> "u2", code |-> 200]
    /\ lastLike = [pid |-> 1, caller |-> "u2", member |-> TRUE, count |-> 2]
    /\ activities = NoActivities
    /\ projects[1].likes = {"u3"}
    /\ projects[1].likeCount = 1

(***************************************************************************)
(* Comments and replies.  A comment is [id, userId, content, replies] and  *)
(* a reply [id, userId, content].  Every handler reads the project (and    *)
(* builds what it will write) in its first step and sends one update in    *)
(* its second; addComment and deleteComment update by operator ($push,     *)
(* $pull), the other four write back the comments array they read.         *)
(***************************************************************************)
Ids == 1..MaxIds

Contents == {<<"a">>, <<"b">>}

\* comments.findIndex(c => c._id.toString() === commentId), 0 for -1
CommentIndex(comments, commentId) ==
    LET hits == {i \in 1..Len(comments) : comments[i].id = commentId}
    IN  IF hits = {} THEN 0 ELSE CHOOSE i \in hits : \A j \in hits : i <= j

\* sum over the top-level comments of 1 + replies.length
RECURSIVE CommentTotal(_)
CommentTotal(comments) ==
    IF comments = << >> THEN 0
    ELSE 1 + Len(Head(comments).replies) + CommentTotal(Tail(comments))

\* a request answered in its first step
Refuse(op, c, code) ==
    /\ resp' = [op |-> op, caller |-> c, code |-> code]
    /\ UNCHANGED <<inflight, nextId>>

\* the answer of the second step
Answer(s, code) ==
    /\ resp' = [op |-> inflight[s].op, caller |-> inflight[s].caller, code |-> code]
    /\ inflight' = [inflight EXCEPT ![s] = Idle]

AddCommentBegin(s, c, p, content) ==
    /\ inflight[s] = Idle
    /\ c \in Uids
    /\ LET project == FindProject(p) IN
       IF ~project.exists THEN Refuse("addComment", c, 404)
       ELSE /\ nextId < MaxIds
            /\ nextId' = nextId + 1
            /\ inflight' = [inflight EXCEPT ![s] =
                   [op |-> "addComment", caller |-> c, pid |-> p,
                    comment |-> [id |-> nextId + 1, userId |-> c,
                                 content |-> content, replies |-> << >>],
                    authorId |-> project.authorId]]
            /\ UNCHANGED resp
    /\ UNCHANGED <<users, projects, requests, notifications, notifUp, lastLike,
                   activities>>

AddCommentWrite(s) ==
    /\ inflight[s].op = "addComment"
    /\ LET c == inflight[s].caller
           p == inflight[s].pid
       IN  /\ projects' = IF projects[p].exists
                          THEN [projects EXCEPT
                                   ![p].comments = Append(@, inflight[s].comment),
                                   ![p].commentCount = @ + 1]
                          ELSE projects
           /\ notifications' =
                  IF inflight[s].authorId # c
                  THEN createNotification(notifications, inflight[s].authorId, c,
                                          "comment", p)
                  ELSE notifications
    /\ Answer(s, 201)
    /\ UNCHANGED <<users, requests, notifUp, nextId, lastLike, activities>>

\* the ownership test relaxed for admins, as in deleteComment
EditCommentBeginAdmin(s, c, p, commentId, content) ==
    /\ inflight[s] = Idle
    /\ c \in Uids
    /\ LET project == FindProject(p)
           comments == project.comments
           i == CommentIndex(comments, commentId)
       IN  IF ~project.exists THEN Refuse("editComment", c, 404)
           ELSE IF i = 0 THEN Refuse("editComment", c, 404)
           ELSE IF comments[i].userId # c /\ ~IsAdminTruthy(c)
                THEN Refuse("editComment", c, 403)
           ELSE /\ inflight' = [inflight EXCEPT ![s] =
                       [op |-> "editComment", caller |-> c, pid |-> p,
                        comments |-> [comments EXCEPT ![i].content = content]]]
                /\ UNCHANGED <<resp, nextId>>
    /\ UNCHANGED <<users, projects, requests, notifications, notifUp, lastLike,
                   activities>>

EditCommentBegin(s, c, p, commentId, content) ==
    /\ inflight[s] = Idle
    /\ c \in Uids
    /\ LET project == FindProject(p)
           comments == project.comments
           i == CommentIndex(comments, commentId)
       IN  IF ~project.exists THEN Refuse("editComment", c, 404)
           ELSE IF i = 0 THEN Refuse("editComment", c, 404)
           ELSE IF comments[i].userId # c THEN Refuse("editComment", c, 403)
           ELSE /\ inflight' = [inflight EXCEPT ![s] =
                       [op |-> "editComment", caller |-> c, pid |-> p,
                        comments |-> [comments EXCEPT ![i].content = content]]]
                /\ UNCHANGED <<resp, nextId>>
    /\ UNCHANGED <<users, projects, requests, notifications, notifUp, lastLike,
                   activities>>

EditCommentWrite(s) ==
    /\ inflight[s].op = "editComment"
    /\ LET p == inflight[s].pid
       IN  projects' = IF projects[p].exists
                       THEN [projects EXCEPT ![p].comments = inflight[s].comments]
                       ELSE projects
    /\ Answer(s, 200)
    /\ UNCHANGED <<users, requests, notifications, notifUp, nextId, lastLike,
                   activities>>

\* the delete that discounts the comment but not its replies
DeleteCommentUpdateNoReplies(doc, commentId, replyCount) ==
    [doc EXCEPT !.comments = SelectSeq(@, LAMBDA x : x.id # commentId),
                !.commentCount = @ - 1]

\* $pull: { comments: { _id } }, $inc: { commentCount: -(1 + replyCount) }
DeleteCommentUpdate(doc, commentId, replyCount) ==
    [doc EXCEPT !.comments = SelectSeq(@, LAMBDA x : x.id # commentId),
                !.commentCount = @ - (1 + replyCount)]

DeleteCommentBegin(s, c, p, commentId) ==
    /\ inflight[s] = Idle
    /\ c \in Uids
    /\ LET isAdmin == IsAdminTruthy(c)
           project == FindProject(p)
           comments == project.comments
           i == CommentIndex(comments, commentId)
       IN  IF ~project.exists THEN Refuse("deleteComment", c, 404)
           ELSE IF i = 0 THEN Refuse("deleteComment", c, 404)
           ELSE IF comments[i].userId # c /\ ~isAdmin
                THEN Refuse("deleteComment", c, 403)
           ELSE /\ inflight' = [inflight EXCEPT ![s] =
                       [op |-> "deleteComment", caller |-> c, pid |-> p,
                        commentId |-> commentId,
                        replyCount |-> Len(comments[i].replies)]]
                /\ UNCHANGED <<resp, nextId>>
    /\ UNCHANGED <<users, projects, requests, notifications, notifUp, lastLike,
                   activities>>

\* the delete that drops the oldest comment instead of the one asked for
DeleteCommentWriteOldest(s) ==
    /\ inflight[s].op = "deleteComment"
    /\ LET p == inflight[s].pid
       IN  projects' = IF projects[p].exists
                       THEN [projects EXCEPT ![p] =
                                DeleteCommentUpdate(@, Head(@.comments).id,
                                                    inflight[s].replyCount)]
                       ELSE projects
    /\ Answer(s, 200)
    /\ UNCHANGED <<users, requests, notifications, notifUp, nextId, lastLike,
                   activities>>

DeleteCommentWrite(s) ==
    /\ inflight[s].op = "deleteComment"
    /\ LET p == inflight[s].pid
       IN  projects' = IF projects[p].exists
                       THEN [projects EXCEPT ![p] =
                                DeleteCommentUpdate(@, inflight[s].commentId,
                                                    inflight[s].replyCount)]
                       ELSE projects
    /\ Answer(s, 200)
    /\ UNCHANGED <<users, requests, notifications, notifUp, nextId, lastLike,
                   activities>>

AddReplyBegin(s, c, p, commentId, content) ==
    /\ inflight[s] = Idle
    /\ c \in Uids
    /\ LET project == FindProject(p)
           comments == project.comments
           i == CommentIndex(comments, commentId)
           reply == [id |-> nextId + 1, userId |-> c, content |-> content]
       IN  IF ~project.exists THEN Refuse("addReply", c, 404)
           ELSE IF i = 0 THEN Refuse("addReply", c, 404)
           ELSE /\ nextId < MaxIds
                /\ nextId' = nextId + 1
                /\ inflight' = [inflight EXCEPT ![s] =
                       [op |-> "addReply", caller |-> c, pid |-> p,
                        comments |-> [comments EXCEPT
                                         ![i].replies = Append(@, reply)],
                        commentUserId |-> comments[i].userId]]
                /\ UNCHANGED resp
    /\ UNCHANGED <<users, projects, requests, notifications, notifUp, lastLike,
                   activities>>

AddReplyWrite(s) ==
    /\ inflight[s].op = "addReply"
    /\ LET c == inflight[s].caller
           p == inflight[s].pid
       IN  /\ projects' = IF projects[p].exists
                          THEN [projects EXCEPT
                                   ![p].comments = inflight[s].comments,
                                   ![p].commentCount = @ + 1]
                          ELSE projects
           /\ notifications' =
                  IF inflight[s].commentUserId # c
                  THEN createNotification(notifications, inflight[s].commentUserId,
                                          c, "reply", p)
                  ELSE notifications
    /\ Answer(s, 201)
    /\ UNCHANGED <<users, requests, notifUp, nextId, lastLike, activities>>

EditReplyBegin(s, c, p, commentId, replyId, content) ==
    /\ inflight[s] = Idle
    /\ c \in Uids
    /\ LET project == FindProject(p)
           comments == project.comments
           i == CommentIndex(comments, commentId)
           replies == comments[i].replies
           j == CommentIndex(replies, replyId)
       IN  IF ~project.exists THEN Refuse("editReply", c, 404)
           ELSE IF i = 0 THEN Refuse("editReply", c, 404)
           ELSE IF j = 0 THEN Refuse("editReply", c, 404)
           ELSE IF replies[j].userId # c THEN Refuse("editReply", c, 403)
           ELSE /\ inflight' = [inflight EXCEPT ![s] =
                       [op |-> "editReply", caller |-> c, pid |-> p,
                        comments |-> [comments EXCEPT
                                         ![i].replies[j].content = content]]]
                /\ UNCHANGED <<resp, nextId>>
    /\ UNCHANGED <<users, projects, requests, notifications, notifUp, lastLike,
                   activities>>

EditReplyWrite(s) ==
    /\ inflight[s].op = "editReply"
    /\ LET p == inflight[s].pid
       IN  projects' = IF projects[p].exists
                       THEN [projects EXCEPT ![p].comments = inflight[s].comments]
                       ELSE projects
    /\ Answer(s, 200)
    /\ UNCHANGED <<users, requests, notifications, notifUp, nextId, lastLike,
                   activities>>

DeleteReplyBegin(s, c, p, commentId, replyId) ==
    /\ inflight[s] = Idle
    /\ c \in Uids
    /\ LET isAdmin == IsAdminTruthy(c)
           project == FindProject(p)
           comments == project.comments
           i == CommentIndex(comments, commentId)
           replies == comments[i].replies
           j == CommentIndex(replies, replyId)
       IN  IF ~project.exists THEN Refuse("deleteReply", c, 404)
           ELSE IF i = 0 THEN Refuse("deleteReply", c, 404)
           ELSE IF j = 0 THEN Refuse("deleteReply", c, 404)
           ELSE IF replies[j].userId # c /\ ~isAdmin
                THEN Refuse("deleteReply", c, 403)
           ELSE /\ inflight' = [inflight EXCEPT ![s] =
                       [op |-> "deleteReply", caller |-> c, pid |-> p,
                        comments |-> [comments EXCEPT ![i].replies =
                                         SelectSeq(@, LAMBDA r : r.id # replyId)]]]
                /\ UNCHANGED <<resp, nextId>>
    /\ UNCHANGED <<users, projects, requests, notifications, notifUp, lastLike,
                   activities>>

DeleteReplyWrite(s) ==
    /\ inflight[s].op = "deleteReply"
    /\ LET p == inflight[s].pid
       IN  projects' = IF projects[p].exists
                       THEN [projects EXCEPT
                                ![p].comments = inflight[s].comments,
                                ![p].commentCount = @ - 1]
                       ELSE projects
    /\ Answer(s, 200)
    /\ UNCHANGED <<users, requests, notifications, notifUp, nextId, lastLike,
                   activities>>

(***************************************************************************)
(* Comments, one request at a time: u1 comments and replies on the own     *)
(* approved project 1 (and addresses the missing project 2); u1 and the    *)
(* admin u2 edit; u1, u2 and the unregistered u3 delete; a request is      *)
(* sent when no other request is in progress and is served in the first    *)
(* slot.  The notification store is unreachable.                           *)
(***************************************************************************)
Authors == {"u1"}

Editors == {"u1", "u2"}

Commenters == {"u1", "u2", "u3"}

CommentPids == {p \in Pids : p <= 2}

AllIdle == \A s \in Slots : inflight[s] = Idle

InitComments ==
    /\ users = [InitUsers EXCEPT !["u2"].isAdmin = TRUE]
    /\ projects = [p \in Pids |-> IF p = 1 THEN ApprovedProject(1, "u1")
                                          ELSE NoProject]
    /\ requests = << >>
    /\ notifications = EmptyBag
    /\ notifUp = FALSE
    /\ inflight = [s \in Slots |-> Idle]
    /\ nextId = 0
    /\ resp = NoResp
    /\ lastLike = NoLike
    /\ activities = NoActivities

\* the ids worth sending for project p: all of them when p exists, one when
\* the request fails on the project whatever the id
IdsFor(p) == IF FindProject(p).exists THEN Ids ELSE {1}

\* the reply ids worth sending for comment i of project p: all of them when
\* the comment exists, one when the request fails on the comment
ReplyIdsFor(p, i) ==
    IF FindProject(p).exists /\ CommentIndex(FindProject(p).comments, i) # 0
    THEN Ids \ {i} ELSE {1}

\* the slot that serves the next request
FreeSlot == CHOOSE s \in Slots : \A t \in Slots : s <= t

NextComments ==
    \/ \E c \in Authors, p \in CommentPids :
           AllIdle /\ AddCommentBegin(FreeSlot, c, p, <<"a">>)
    \/ \E c \in Editors, p \in CommentPids : \E i \in IdsFor(p) :
           AllIdle /\ EditCommentBegin(FreeSlot, c, p, i, <<"b">>)
    \/ \E c \in Commenters, p \in CommentPids : \E i \in IdsFor(p) :
           AllIdle /\ DeleteCommentBegin(FreeSlot, c, p, i)
    \/ \E c \in Authors, p \in CommentPids : \E i \in IdsFor(p) :
           AllIdle /\ AddReplyBegin(FreeSlot, c, p, i, <<"a">>)
    \/ \E c \in Editors, p \in CommentPids : \E i \in IdsFor(p) :
           \E j \in ReplyIdsFor(p, i) :
           AllIdle /\ EditReplyBegin(FreeSlot, c, p, i, j, <<"b">>)
    \/ \E c \in Commenters, p \in CommentPids : \E i \in IdsFor(p) :
           \E j \in ReplyIdsFor(p, i) :
           AllIdle /\ DeleteReplyBegin(FreeSlot, c, p, i, j)
    \/ \E s \in Slots : AddCommentWrite(s)
    \/ \E s \in Slots : EditCommentWrite(s)
    \/ \E s \in Slots : DeleteCommentWrite(s)
    \/ \E s \in Slots : AddReplyWrite(s)
    \/ \E s \in Slots : EditReplyWrite(s)
    \/ \E s \in Slots : DeleteReplyWrite(s)

SpecComments == InitComments /\ [][NextComments]_vars

\* C8: for every project, after any sequence of completed, non-overlapping
\* addComment, editComment, deleteComment, addReply, editReply and
\* deleteReply calls, commentCount equals the sum over the top-level
\* comments of 1 + the number of replies of that comment.
C8_CommentCountIsTotal ==
    \A p \in Pids :
        projects[p].exists =>
            projects[p].commentCount = CommentTotal(projects[p].comments)

C8_Witness ==
    /\ resp = [op |-> "deleteComment", caller |-> "u2", code |-> 200]
    /\ nextId = 3
    /\ Len(projects[1].comments) = 1
    /\ projects[1].comments[1].id = 3
    /\ projects[1].commentCount = 1

(***************************************************************************)
(* Supervision requests.  A request is [id, studentId, supervisorId,       *)
(* projectId, status]; projectId 0 is a request without a project.         *)
(***************************************************************************)
NoRequest == [exists |-> FALSE]

\* a project id that is not a well-formed ObjectId
InvalidPid == MaxProjects + 1

ObjectIdIsValid(p) == p # InvalidPid

\* new SupervisorRequest({...}).toJSON() with the _id of the insert; the
\* constructor gives a new request the status 'pending'
NewSupervisorRequest(id, studentId, supervisorId, projectId) ==
    [exists |-> TRUE, id |-> id, studentId |-> studentId,
     supervisorId |-> supervisorId, projectId |-> projectId,
     status |-> "pending"]

\* requestsCollection.findOne({ _id })
FindRequest(rid) ==
    IF rid \in 1..Len(requests) THEN requests[rid] ELSE NoRequest

\* a duplicate check that finds nothing
ExistingRequestNone(rs, studentId, supervisorId, projectId) == FALSE

\* findOne({ studentId, supervisorId, projectId, status: 'pending' }) on rs
ExistingRequest(rs, studentId, supervisorId, projectId) ==
    \E i \in 1..Len(rs) :
        /\ rs[i].studentId = studentId
        /\ rs[i].supervisorId = supervisorId
        /\ rs[i].projectId = projectId
        /\ rs[i].status = "pending"

createSupervisorRequestNotification(ns, supervisorId, studentId, projectId) ==
    createNotification(ns, supervisorId, studentId, "supervisor_request", projectId)

createSupervisorResponseNotification(ns, studentId, supervisorId, projectId) ==
    createNotification(ns, studentId, supervisorId, "supervisor_response", projectId)

\* a sendRequest answered before its insert
RefuseSend(c, code, message) ==
    /\ resp' = [op |-> "sendRequest", caller |-> c, code |-> code,
                message |-> message]
    /\ UNCHANGED inflight

\* the sendRequest calls between their duplicate check and their insert
SendsInFlight == Cardinality({s \in Slots : inflight[s].op = "sendRequest"})

\* the handler without its test of the project's author
SendRequestBeginNoOwner(s, c, supervisorId, projectId) ==
    /\ inflight[s] = Idle
    /\ c \in Uids
    /\ LET supervisor == FindUser(supervisorId)
           project == FindProject(projectId)
       IN  IF ~supervisor.exists
           THEN RefuseSend(c, 404, "Supervisor not found")
           ELSE IF supervisor.role # "supervisor"
           THEN RefuseSend(c, 400, "User is not a supervisor")
           ELSE IF projectId # 0 /\ ~ObjectIdIsValid(projectId)
           THEN RefuseSend(c, 400, "Invalid project ID")
           ELSE IF projectId # 0 /\ ~project.exists
           THEN RefuseSend(c, 404, "Project not found")
           ELSE IF projectId # 0 /\ project.supervisorId # ""
           THEN RefuseSend(c, 400, "Project already has a supervisor assigned")
           ELSE IF ExistingRequest(requests, c, supervisorId, projectId)
           THEN RefuseSend(c, 400, "You already have a pending request")
           ELSE /\ Len(requests) + SendsInFlight < MaxRequests
                /\ inflight' = [inflight EXCEPT ![s] =
                       [op |-> "sendRequest", caller |-> c, pid |-> projectId,
                        supervisorId |-> supervisorId]]
                /\ UNCHANGED resp
    /\ UNCHANGED <<users, projects, requests, notifications, notifUp, nextId,
                   lastLike, activities>>

\* the handler up to its insert: supervisor, project and duplicate checks
SendRequestBegin(s, c, supervisorId, projectId) ==
    /\ inflight[s] = Idle
    /\ c \in Uids
    /\ LET supervisor == FindUser(supervisorId)
           project == FindProject(projectId)
       IN  IF ~supervisor.exists
           THEN RefuseSend(c, 404, "Supervisor not found")
           ELSE IF supervisor.role # "supervisor"
           THEN RefuseSend(c, 400, "User is not a supervisor")
           ELSE IF projectId # 0 /\ ~ObjectIdIsValid(projectId)
           THEN RefuseSend(c, 400, "Invalid project ID")
           ELSE IF projectId # 0 /\ ~project.exists
           THEN RefuseSend(c, 404, "Project not found")
           ELSE IF projectId # 0 /\ project.authorId # c
           THEN RefuseSend(c, 403, "Project does not belong to you")
           ELSE IF projectId # 0 /\ project.supervisorId # ""
           THEN RefuseSend(c, 400, "Project already has a supervisor assigned")
           ELSE IF ExistingRequest(requests, c, supervisorId, projectId)
           THEN RefuseSend(c, 400, "You already have a pending request")
           ELSE /\ Len(requests) + SendsInFlight < MaxRequests
                /\ inflight' = [inflight EXCEPT ![s] =
                       [op |-> "sendRequest", caller |-> c, pid |-> projectId,
                        supervisorId |-> supervisorId]]
                /\ UNCHANGED resp
    /\ UNCHANGED <<users, projects, requests, notifications, notifUp, nextId,
                   lastLike, activities>>

\* insertOne, the notification to the supervisor, res.json
SendRequestWrite(s) ==
    /\ inflight[s].op = "sendRequest"
    /\ LET c == inflight[s].caller
           v == inflight[s].supervisorId
           p == inflight[s].pid
       IN  /\ requests' = Append(requests,
                              NewSupervisorRequest(Len(requests) + 1, c, v, p))
           /\ notifications' =
                  createSupervisorRequestNotification(notifications, v, c, p)
           /\ resp' = [op |-> "sendRequest", caller |-> c, code |-> 200,
                       message |-> "Request sent successfully"]
    /\ inflight' = [inflight EXCEPT ![s] = Idle]
    /\ UNCHANGED <<users, projects, notifUp, nextId, lastLike, activities>>

Actions == {"approve", "reject"}

\* the handler without its test of the request's status
RespondBeginAnyStatus(s, c, rid, action) ==
    /\ inflight[s] = Idle
    /\ c \in Uids
    /\ LET request == FindRequest(rid) IN
       IF ~request.exists THEN Refuse("respondToRequest", c, 404)
       ELSE IF request.supervisorId # c THEN Refuse("respondToRequest", c, 403)
       ELSE /\ inflight' = [inflight EXCEPT ![s] =
                   [op |-> "respondToRequest", caller |-> c,
                    pid |-> request.projectId, rid |-> rid, action |-> action,
                    studentId |-> request.studentId, step |-> "status"]]
            /\ UNCHANGED <<resp, nextId>>
    /\ UNCHANGED <<users, projects, requests, notifications, notifUp, lastLike,
                   activities>>

\* the handler up to its first write: the request and the three checks
RespondBegin(s, c, rid, action) ==
    /\ inflight[s] = Idle
    /\ c \in Uids
    /\ LET request == FindRequest(rid) IN
       IF ~request.exists THEN Refuse("respondToRequest", c, 404)
       ELSE IF request.supervisorId # c THEN Refuse("respondToRequest", c, 403)
       ELSE IF request.status # "pending" THEN Refuse("respondToRequest", c, 400)
       ELSE /\ inflight' = [inflight EXCEPT ![s] =
                   [op |-> "respondToRequest", caller |-> c,
                    pid |-> request.projectId, rid |-> rid, action |-> action,
                    studentId |-> request.studentId, step |-> "status"]]
            /\ UNCHANGED <<resp, nextId>>
    /\ UNCHANGED <<users, projects, requests, notifications, notifUp, lastLike,
                   activities>>

\* requestsCollection.updateOne({ _id }, { $set: { status: newStatus } })
RespondStatusWrite(s) ==
    /\ inflight[s].op = "respondToRequest"
    /\ inflight[s].step = "status"
    /\ requests' = [requests EXCEPT ![inflight[s].rid].status =
                       IF inflight[s].action = "approve" THEN "approved"
                                                         ELSE "rejected"]
    /\ inflight' = [inflight EXCEPT ![s].step =
                       IF inflight[s].action = "approve" /\ inflight[s].pid # 0
                       THEN "project" ELSE "notify"]
    /\ UNCHANGED <<users, projects, notifications, notifUp, nextId, resp, lastLike,
                   activities>>

\* projectsCollection.updateOne: the supervisor triple of the project
RespondProjectWrite(s) ==
    /\ inflight[s].op = "respondToRequest"
    /\ inflight[s].step = "project"
    /\ LET c == inflight[s].caller
           p == inflight[s].pid
           supervisor == FindUser(c)
       IN  projects' =
               IF FindProject(p).exists
               THEN [projects EXCEPT
                        ![p].supervisorId = c,
                        ![p].supervisor = IF supervisor.exists
                                          THEN supervisor.name ELSE NoText,
                        ![p].supervisorDepartment = IF supervisor.exists
                                                    THEN supervisor.department
                                                    ELSE ""]
               ELSE projects
    /\ inflight' = [inflight EXCEPT ![s].step = "user"]
    /\ UNCHANGED <<users, requests, notifications, notifUp, nextId, resp, lastLike,
                   activities>>

\* the same write in controllers/supervisorController.js, the module the
\* supervisor routes require: supervisorId alone is set
RespondProjectWriteIdOnly(s) ==
    /\ inflight[s].op = "respondToRequest"
    /\ inflight[s].step = "project"
    /\ LET c == inflight[s].caller
           p == inflight[s].pid
       IN  projects' = IF FindProject(p).exists
                       THEN [projects EXCEPT ![p].supervisorId = c]
                       ELSE projects
    /\ inflight' = [inflight EXCEPT ![s].step = "user"]
    /\ UNCHANGED <<users, requests, notifications, notifUp, nextId, resp, lastLike,
                   activities>>

\* usersCollection.updateOne: $addToSet supervisedProjects
RespondUserWrite(s) ==
    /\ inflight[s].op = "respondToRequest"
    /\ inflight[s].step = "user"
    /\ LET c == inflight[s].caller IN
       users' = IF users[c].exists
                THEN [users EXCEPT ![c].supervisedProjects =
                                       @ \cup {inflight[s].pid}]
                ELSE users
    /\ inflight' = [inflight EXCEPT ![s].step = "notify"]
    /\ UNCHANGED <<projects, requests, notifications, notifUp, nextId, resp,
                   lastLike, activities>>

\* the last step without the try/catch around the notification
RespondNotifyUncaught(s) ==
    /\ inflight[s].op = "respondToRequest"
    /\ inflight[s].step = "notify"
    /\ notifications' =
           createSupervisorResponseNotification(notifications,
               inflight[s].studentId, inflight[s].caller, inflight[s].pid)
    /\ Answer(s, IF NotifAvailable(notifications) THEN 200 ELSE 500)
    /\ UNCHANGED <<users, projects, requests, notifUp, nextId, lastLike, activities>>

\* the notification to the student, res.json
RespondNotify(s) ==
    /\ inflight[s].op = "respondToRequest"
    /\ inflight[s].step = "notify"
    /\ notifications' =
           createSupervisorResponseNotification(notifications,
               inflight[s].studentId, inflight[s].caller, inflight[s].pid)
    /\ Answer(s, 200)
    /\ UNCHANGED <<users, projects, requests, notifUp, nextId, lastLike, activities>>

\* res.json of controllers/supervisorController.js, where the notification
\* to the student is still a TODO
RespondAnswer(s) ==
    /\ inflight[s].op = "respondToRequest"
    /\ inflight[s].step = "notify"
    /\ Answer(s, 200)
    /\ UNCHANGED <<users, projects, requests, notifications, notifUp, nextId,
                   lastLike, activities>>

(***************************************************************************)
(* Requests: u1 asks for supervision, for the own project 1, for u2's      *)
(* project 2, for a malformed project id and for no project; v1 (and u1,   *)
(* for whom no request is meant) responds; u1 deletes project 1.  The      *)
(* sendRequest calls overlap one another; a respondToRequest is served     *)
(* when no other request is in progress.                                   *)
(***************************************************************************)
Supervisors == {"v1", "u2", "u3"}

SendPids == {0, InvalidPid} \cup {p \in Pids : p <= 2}

Rids == 1..MaxRequests

InitRequests ==
    /\ users = InitUsers
    /\ projects = [p \in Pids |-> IF p = 1 THEN ApprovedProject(1, "u1")
                                  ELSE IF p = 2 THEN ApprovedProject(2, "u2")
                                  ELSE NoProject]
    /\ requests = << >>
    /\ notifications = EmptyBag
    /\ notifUp = TRUE
    /\ inflight = [s \in Slots |-> Idle]
    /\ nextId = 0
    /\ resp = NoResp
    /\ lastLike = NoLike
    /\ activities = NoActivities

\* the lowest idle slot, if s is one
LowestIdle(s) == inflight[s] = Idle /\ \A t \in Slots : t < s => inflight[t] # Idle

Responding == \E s \in Slots : inflight[s].op = "respondToRequest"

NextRequests ==
    \/ \E s \in Slots, v \in Supervisors, p \in SendPids :
           LowestIdle(s) /\ ~Responding /\ SendRequestBegin(s, "u1", v, p)
    \/ \E s \in Slots : SendRequestWrite(s)
    \/ \E c \in {"v1", "u1"}, rid \in Rids, a \in Actions :
           AllIdle /\ RespondBegin(FreeSlot, c, rid, a)
    \/ \E s \in Slots : RespondStatusWrite(s)
    \/ \E s \in Slots : RespondProjectWrite(s)
    \/ \E s \in Slots : RespondUserWrite(s)
    \/ \E s \in Slots : RespondNotify(s)
    \/ deleteProject("u1", 1)

SpecRequests == InitRequests /\ [][NextRequests]_vars

\* a request of the triple with status 'pending' is stored
PendingExists(studentId, supervisorId, projectId) ==
    \E i \in 1..Len(requests) :
        requests[i] = [NewSupervisorRequest(i, studentId, supervisorId, projectId)
                          EXCEPT !.status = "pending"]

\* the stored requests with status 'pending'
PendingRequests ==
    {requests[i] : i \in {j \in 1..Len(requests) : requests[j].status = "pending"}}

\* the sendRequest of c has failed with the code and has returned
SendFailed(c, code) ==
    /\ resp'.op = "sendRequest"
    /\ resp'.caller = c
    /\ resp'.code = code
    /\ requests' = requests
    /\ inflight' = inflight

\* C9 (as stated): sendRequest by S to V for P, issued while a request with
\* the same (S, V, P) and status 'pending' exists, fails with 400 and creates
\* no request record.
C9_DuplicateIs400 ==
    [][\A r \in PendingRequests, s \in Slots :
          SendRequestBegin(s, r.studentId, r.supervisorId, r.projectId)
          => SendFailed(r.studentId, 400)]_vars

\* C9 (amended): sendRequest by S to V for P, issued while a request with
\* the same (S, V, P) and status 'pending' exists, creates no request record
\* and fails with 400, or with 404 when P has been deleted since the pending
\* request was sent.
C9_DuplicateRefused ==
    [][\A r \in PendingRequests, s \in Slots :
          SendRequestBegin(s, r.studentId, r.supervisorId, r.projectId)
          => SendFailed(r.studentId,
                        IF r.projectId # 0 /\ ~FindProject(r.projectId).exists
                        THEN 404 ELSE 400)]_vars

C9_Witness ==
    /\ resp = [op |-> "sendRequest", caller |-> "u1", code |-> 400,
               message |-> "You already have a pending request"]
    /\ PendingExists("u1", "v1", 1)
    /\ Len(requests) = 1
    /\ \A s \in Slots : inflight[s] = Idle

\* C10: in every reachable state, also when two sendRequest calls for the
\* same triple interleave between the duplicate check and the insert, at
\* most one request with status 'pending' exists for a (student,
\* supervisor, project) triple.
C10_OnePendingPerTriple ==
    \A i, j \in 1..Len(requests) :
        ( /\ requests[i].status = "pending"
          /\ requests[j].status = "pending"
          /\ requests[i].studentId = requests[j].studentId
          /\ requests[i].supervisorId = requests[j].supervisorId
          /\ requests[i].projectId = requests[j].projectId )
        => i = j

\* the codes the checks of sendRequest by c to v for p call for: 404 for a
\* missing supervisor or project, 400 for a target that is no supervisor, a
\* malformed project id or a project with a supervisor, 403 for a project
\* of another author
SendErrors(c, v, p) ==
    {code \in {400, 403, 404} :
        \/ code = 404 /\ ~users[v].exists
        \/ code = 400 /\ users[v].exists /\ users[v].role # "supervisor"
        \/ /\ p # 0
           /\ \/ code = 400 /\ p = InvalidPid
              \/ code = 404 /\ p \in Pids /\ ~projects[p].exists
              \/ code = 403 /\ p \in Pids /\ projects[p].exists
                            /\ projects[p].authorId # c
              \/ code = 400 /\ p \in Pids /\ projects[p].exists
                            /\ projects[p].supervisorId # ""}

\* C15: sendRequest creates a request only if the target user exists with
\* role 'supervisor' and, when a projectId is given, the project exists, is
\* the caller's and has no supervisor; otherwise it returns an error (404,
\* 400 or 403 as the failed check calls for) and creates no request record
\* and no notification.  A created request has status 'pending'.
C15_SendValidates ==
    [][/\ \A s \in Slots, v \in Supervisors, p \in SendPids :
              (SendRequestBegin(s, "u1", v, p) /\ SendErrors("u1", v, p) # {})
                  => /\ \E code \in SendErrors("u1", v, p) : SendFailed("u1", code)
                     /\ notifications' = notifications
       /\ \A s \in Slots :
              SendRequestWrite(s)
                  => /\ Len(requests') = Len(requests) + 1
                     /\ SubSeq(requests', 1, Len(requests)) = requests
                     /\ requests'[Len(requests')].status = "pending"
       /\ Len(requests') > Len(requests) => \E s \in Slots : SendRequestWrite(s)]_vars

\* a request of u1 is stored and another sendRequest of u1, for the project
\* of u2, was refused
C15_Witness ==
    /\ resp = [op |-> "sendRequest", caller |-> "u1", code |-> 403,
               message |-> "Project does not belong to you"]
    /\ Len(requests) >= 1
    /\ requests[1].status = "pending"

(***************************************************************************)
(* Responses: u1 asks v1 and v2 to supervise the own project 1, one        *)
(* request after the other; then v1 and v2 respond, also to requests meant *)
(* for the other, and two responses may overlap.  Either of the two        *)
(* respondToRequest of the repository may be the one deployed.             *)
(***************************************************************************)
Responders == {"v1", "v2"}

InitRespond ==
    /\ users = InitUsers
    /\ projects = [p \in Pids |-> IF p = 1 THEN ApprovedProject(1, "u1")
                                          ELSE NoProject]
    /\ requests = << >>
    /\ notifications = EmptyBag
    /\ notifUp = TRUE
    /\ inflight = [s \in Slots |-> Idle]
    /\ nextId = 0
    /\ resp = NoResp
    /\ lastLike = NoLike
    /\ activities = NoActivities

NextRespond ==
    \/ \E v \in Responders :
           /\ AllIdle
           /\ resp.op # "respondToRequest"
           /\ SendRequestBegin(FreeSlot, "u1", v, 1)
    \/ \E s \in Slots : SendRequestWrite(s)
    \/ \E s \in Slots, c \in Responders, rid \in Rids, a \in Actions :
           /\ LowestIdle(s)
           /\ SendsInFlight = 0
           /\ Cardinality({t \in Slots : inflight[t] # Idle}) <= 1
           /\ RespondBegin(s, c, rid, a)
    \/ \E s \in Slots : RespondStatusWrite(s)
    \/ \E s \in Slots : RespondProjectWrite(s)
    \/ \E s \in Slots : RespondProjectWriteIdOnly(s)
    \/ \E s \in Slots : RespondUserWrite(s)
    \/ \E s \in Slots : RespondNotify(s)
    \/ \E s \in Slots : RespondAnswer(s)

SpecRespond == InitRespond /\ [][NextRespond]_vars

\* the step is the project write of a respondToRequest
IsProjectWrite(s) ==
    /\ inflight[s].op = "respondToRequest"
    /\ inflight[s].step = "project"
    /\ inflight'[s].step = "user"

\* C11: when supervisor B approves a pending request of student A with
\* project P attached, the request becomes 'approved' and P's supervisorId,
\* supervisor and supervisorDepartment are set to B's id and B's currently
\* stored name and department.
C11_ApproveAssignsSupervisor ==
    [][\A s \in Slots :
          /\ ( /\ inflight[s].op = "respondToRequest"
               /\ inflight[s].action = "approve"
               /\ RespondStatusWrite(s) )
             => requests'[inflight[s].rid].status = "approved"
          /\ (IsProjectWrite(s) /\ FindProject(inflight[s].pid).exists)
             => LET b == inflight[s].caller
                    project == projects'[inflight[s].pid]
                IN  /\ project.supervisorId = b
                    /\ project.supervisor = users[b].name
                    /\ project.supervisorDepartment = users[b].department]_vars

\* the requests for project p that are approved
ApprovedRequests(p) ==
    {i \in 1..Len(requests) :
        requests[i].projectId = p /\ requests[i].status = "approved"}

\* C12: in every reachable state, for every project P, at most one
\* supervision request with projectId P has status 'approved', also when the
\* student sent requests for P to several supervisors before any responded.
C12_OneApprovedPerProject ==
    \A p \in Pids : Cardinality(ApprovedRequests(p)) <= 1

\* respondToRequest by c on request rid is refused with this code and
\* nothing is written
RespondFailed(c, code) ==
    /\ resp' = [op |-> "respondToRequest", caller |-> c, code |-> code]
    /\ UNCHANGED <<users, projects, requests, notifications, inflight, activities>>

\* C13: a supervision request is terminal once responded: after its status
\* has left 'pending' the status never changes again, and any later
\* respondToRequest on it by its supervisor returns 400; also when two
\* respondToRequest calls on the same request interleave.
C13_RespondedIsTerminal ==
    [][/\ \A i \in 1..Len(requests) :
              requests[i].status # "pending"
                  => requests'[i].status = requests[i].status
       /\ \A s \in Slots, rid \in Rids, a \in Actions :
              ( /\ FindRequest(rid).exists
                /\ FindRequest(rid).status # "pending"
                /\ RespondBegin(s, FindRequest(rid).supervisorId, rid, a) )
                  => RespondFailed(FindRequest(rid).supervisorId, 400)]_vars

\* C14: respondToRequest by a caller who is not the request's supervisorId
\* returns 403, and on a request that is not pending returns 400; in both
\* cases the request, every project's supervisor fields, every user's
\* supervisedProjects and the notifications are unchanged.
C14_RefusedRespondChangesNothing ==
    [][\A s \in Slots, c \in Responders, rid \in Rids, a \in Actions :
          (FindRequest(rid).exists /\ RespondBegin(s, c, rid, a))
              => /\ FindRequest(rid).supervisorId # c => RespondFailed(c, 403)
                 /\ ( /\ FindRequest(rid).supervisorId = c
                      /\ FindRequest(rid).status # "pending" )
                        => RespondFailed(c, 400)]_vars

\* a responded request was responded to again by its supervisor, who got 400
C14_Witness ==
    /\ resp.op = "respondToRequest"
    /\ resp.code = 400
    /\ \E i \in 1..Len(requests) :
           /\ requests[i].supervisorId = resp.caller
           /\ requests[i].status # "pending"
    /\ \E p \in Pids : projects[p].exists /\ projects[p].supervisorId # ""

(***************************************************************************)
(* Notifications: the seven operations that notify, one call at a time,    *)
(* while the notification store fails and recovers.  u2 is an admin; the   *)
(* approved project 1 is u1's.  A run stays within one group of            *)
(* operations: submission and moderation (u1 and u2 submit and set        *)
(* statuses), likes of project 1, comments and replies on project 1 (by    *)
(* u1 and u2), or the supervision of project 1 (u1 asks v1, v1 responds).  *)
(***************************************************************************)
\* getNotificationsCollection or insertOne starts to throw
StoreFails ==
    /\ notifUp
    /\ notifUp' = FALSE
    /\ UNCHANGED <<users, projects, requests, notifications, inflight, nextId,
                   resp, lastLike, activities>>

\* the notification store answers again
StoreRecovers ==
    /\ ~notifUp
    /\ notifUp' = TRUE
    /\ UNCHANGED <<users, projects, requests, notifications, inflight, nextId,
                   resp, lastLike, activities>>

Moderation == {"createProject", "updateProjectStatus"}
Likes == {"toggleLike"}
Comments == {"addComment", "addReply"}
Supervision == {"sendRequest", "respondToRequest"}

\* the projects whose status is set in the runs
ModeratedPids == {p \in Pids : p <= 2}

\* no call outside the group has been answered yet
InGroup(ops) == resp.op \in ops \cup {"none"}

InitNotify ==
    /\ users = [InitUsers EXCEPT !["u2"].isAdmin = TRUE]
    /\ projects = [p \in Pids |-> IF p = 1 THEN ApprovedProject(1, "u1")
                                          ELSE NoProject]
    /\ requests = << >>
    /\ notifications = EmptyBag
    /\ notifUp = TRUE
    /\ inflight = [s \in Slots |-> Idle]
    /\ nextId = 0
    /\ resp = NoResp
    /\ lastLike = NoLike
    /\ activities = NoActivities

NextNotify ==
    \/ StoreFails
    \/ StoreRecovers
    \/ \E c \in {"u1", "u2"} :
           AllIdle /\ InGroup(Moderation) /\ createProject(c, CreateBody(<<"a">>, 120))
    \/ \E c \in {"u1", "u2"}, p \in ModeratedPids,
          status \in StatusLabels \cup {"archived"} :
           AllIdle /\ InGroup(Moderation) /\ PatchProjectStatus(c, p, status)
    \/ \E c \in {"u1", "u2"} :
           AllIdle /\ InGroup(Likes) /\ ToggleLikeBegin(FreeSlot, c, 1)
    \/ \E s \in Slots : ToggleLikeWrite(s)
    \/ \E c \in {"u1", "u2"} :
           AllIdle /\ InGroup(Comments) /\ AddCommentBegin(FreeSlot, c, 1, <<"a">>)
    \/ \E s \in Slots : AddCommentWrite(s)
    \/ \E c \in {"u1", "u2"}, i \in Ids :
           AllIdle /\ InGroup(Comments) /\ AddReplyBegin(FreeSlot, c, 1, i, <<"a">>)
    \/ \E s \in Slots : AddReplyWrite(s)
    \/ AllIdle /\ InGroup(Supervision) /\ SendRequestBegin(FreeSlot, "u1", "v1", 1)
    \/ \E s \in Slots : SendRequestWrite(s)
    \/ \E rid \in Rids, a \in Actions :
           AllIdle /\ InGroup(Supervision) /\ RespondBegin(FreeSlot, "v1", rid, a)
    \/ \E s \in Slots : RespondStatusWrite(s)
    \/ \E s \in Slots : RespondProjectWrite(s)
    \/ \E s \in Slots : RespondUserWrite(s)
    \/ \E s \in Slots : RespondNotify(s)

SpecNotify == InitNotify /\ [][NextNotify]_vars

\* creating a notification now would fail
NotifyFails == ~NotifAvailable(notifications)

\* the step answers the call of c with the code
Answered(op, c, code) == resp' = [op |-> op, caller |-> c, code |-> code]

\* C16: for every operation that notifies (createProject,
\* updateProjectStatus, toggleLike, addComment, addReply, sendRequest,
\* respondToRequest), the primary state change and the success response are
\* the same whether creating the notification fails or succeeds.
C16_NotifyFailureChangesNothingElse ==
    [][/\ \A c \in {"u1", "u2"} :
              createProject(c, CreateBody(<<"a">>, 120))
                  => /\ Answered("createProject", c, 201)
                     /\ projects' = [projects EXCEPT ![NextPid] =
                            ProjectData(c, NextPid, CreateBody(<<"a">>, 120))]
       /\ \A c \in {"u1", "u2"}, p \in Pids, status \in StatusLabels :
              ( /\ projects[p].exists
                /\ Authorised(c, projects[p])
                /\ updateProjectStatus(c, p, status) )
                  => /\ Answered("updateProjectStatus", c, 200)
                     /\ projects' = [projects EXCEPT ![p].status = status]
       /\ \A s \in Slots, c \in {"u1", "u2"} :
              ToggleLikeBegin(s, c, 1) => inflight'[s].op = "toggleLike"
       /\ \A s \in Slots :
              ToggleLikeWrite(s)
                  => LET c == inflight[s].caller
                         p == inflight[s].pid
                     IN  /\ Answered("toggleLike", c, 200)
                         /\ projects'[p].likes =
                                IF inflight[s].hasLiked
                                THEN projects[p].likes \ {c}
                                ELSE projects[p].likes \cup {c}
       /\ \A s \in Slots :
              AddCommentWrite(s)
                  => /\ Answered("addComment", inflight[s].caller, 201)
                     /\ projects'[inflight[s].pid].comments =
                            Append(projects[inflight[s].pid].comments,
                                   inflight[s].comment)
       /\ \A s \in Slots :
              AddReplyWrite(s)
                  => /\ Answered("addReply", inflight[s].caller, 201)
                     /\ projects'[inflight[s].pid].comments = inflight[s].comments
       /\ \A s \in Slots :
              SendRequestWrite(s)
                  => /\ resp'.op = "sendRequest" /\ resp'.code = 200
                     /\ Len(requests') = Len(requests) + 1
       /\ \A s \in Slots :
              RespondNotify(s)
                  => /\ Answered("respondToRequest", inflight[s].caller, 200)
                     /\ UNCHANGED <<requests, projects, users, activities>>
       /\ NotifyFails => notifications' = notifications]_vars

\* v1 approved the request of u1 while the notification store was failing:
\* the approval is stored and answered, the notification is not there
C16_Witness ==
    /\ ~notifUp
    /\ resp = [op |-> "respondToRequest", caller |-> "v1", code |-> 200]
    /\ Len(requests) = 1
    /\ requests[1].status = "approved"
    /\ projects[1].supervisorId = "v1"
    /\ \A n \in BagToSet(notifications) : n.type # "supervisor_response"

NotificationTypes ==
    {"project_submission", "project_status", "like", "comment", "reply",
     "supervisor_request", "supervisor_response"}

\* the document createNotification stores for a 'system' notification
SystemNotification(recipientId, type, projectId) ==
    [userId |-> recipientId, type |-> type, relatedUserId |-> "",
     projectId |-> projectId, read |-> FALSE]

\* C17: no stored notification has a recipient equal to its sender, except
\* those of the synthetic 'system' sender: createNotification with
\* recipientId = senderId and senderId # 'system' inserts nothing, while a
\* 'system' notification is inserted (whenever the store takes the insert).
C17_NoSelfNotification ==
    /\ \A n \in BagToSet(notifications) : n.relatedUserId # n.userId
    /\ \A u \in Uids, type \in NotificationTypes, p \in Pids :
           /\ createNotification(notifications, u, u, type, p) = notifications
           /\ NotifAvailable(notifications)
                  => createNotification(notifications, u, "system", type, p)
                         = notifications (+) SetToBag({SystemNotification(u, type, p)})

\* the admin u2 submitted a project: the 'system' confirmation to u2 is
\* stored, the submission notification from u2 to the admin u2 is not
C17_Witness ==
    /\ resp = [op |-> "createProject", caller |-> "u2", code |-> 201]
    /\ \E p \in Pids :
           /\ projects[p].exists
           /\ projects[p].authorId = "u2"
           /\ BagIn(SystemNotification("u2", "project_status", p), notifications)
    /\ \A n \in BagToSet(notifications) : n.type # "project_submission"

\* the users with isAdmin true other than c
OtherAdmins(c) ==
    {u \in Uids : users[u].exists /\ users[u].isAdmin = TRUE} \ {c}

\* the notifications a submission of project p by c calls for
SubmissionNotifications(c, p) ==
    SetToBag({[userId |-> a, type |-> "project_submission", relatedUserId |-> c,
               projectId |-> p, read |-> FALSE] : a \in OtherAdmins(c)})
    (+) SetToBag({SystemNotification(c, "project_status", p)})

\* C18: a successful createProject stores a new project with status
\* 'pending' and authorId equal to the caller, and creates one submission
\* notification for every user whose isAdmin is true (other than the author)
\* and one 'system' confirmation for the author (the store taking them).
C18_SubmissionIsPendingAndNotified ==
    [][\A c \in {"u1", "u2"} :
          ( /\ createProject(c, CreateBody(<<"a">>, 120))
            /\ resp'.code = 201 )
              => /\ ~projects[NextPid].exists
                 /\ projects'[NextPid].exists
                 /\ projects'[NextPid].status = "pending"
                 /\ projects'[NextPid].authorId = c
                 /\ ( /\ notifUp
                      /\ BagCardinality(notifications)
                             + Cardinality(OtherAdmins(c)) + 1 <= MaxNotifs )
                        => notifications' =
                               notifications (+) SubmissionNotifications(c, NextPid)]_vars

\* u1 submitted project 2: it is pending, the admin u2 has the submission
\* notification and u1 the confirmation
C18_Witness ==
    /\ resp = [op |-> "createProject", caller |-> "u1", code |-> 201]
    /\ projects[2].exists
    /\ projects[2].status = "pending"
    /\ projects[2].authorId = "u1"
    /\ notifications = SubmissionNotifications("u1", 2)
    /\ OtherAdmins("u1") = {"u2"}

\* C19: updateProjectStatus by an authorised caller validates the target
\* label only: from every current status, a target in {pending, approved,
\* rejected} becomes the project's status (approved -> pending and rejected
\* -> approved included); any other target is answered 400 and the status
\* stays.
C19_AnyLabelFromAnyStatus ==
    [][resp'.op = "updateProjectStatus" =>
          \A p \in Pids, status \in StatusLabels \cup {"archived"} :
              ( /\ projects[p].exists
                /\ Authorised(resp'.caller, projects[p])
                /\ PatchProjectStatus(resp'.caller, p, status) )
                  => IF status \in {"pending", "approved", "rejected"}
                     THEN /\ resp'.code = 200
                          /\ projects' = [projects EXCEPT ![p].status = status]
                     ELSE /\ resp'.code = 400
                          /\ projects' = projects]_vars

\* project 1, approved at the start, was set back to pending by its author
C19_Witness ==
    /\ resp = [op |-> "updateProjectStatus", caller |-> "u1", code |-> 200]
    /\ projects[1].status = "pending"
    /\ projects[1].authorId = "u1"

\* C20: a successful updateProjectStatus creates a status notification
\* addressed to the project's author if and only if the call moves the
\* project away from 'pending': its status was 'pending' before the call and
\* is 'approved' or 'rejected' after it.
C20_NotifiedIffLeavesPending ==
    [][(resp'.op = "updateProjectStatus" /\ resp'.code = 200) =>
          \A p \in Pids, status \in StatusLabels :
              (projects[p].exists /\ PatchProjectStatus(resp'.caller, p, status))
                  => LET leavesPending == /\ projects[p].status = "pending"
                                          /\ status \in {"approved", "rejected"}
                     IN  /\ (leavesPending /\ NotifAvailable(notifications))
                                => notifications' = notifications (+) SetToBag(
                                       {SystemNotification(projects[p].authorId,
                                                           "project_status", p)})
                         /\ ~leavesPending => notifications' = notifications]_vars

(***************************************************************************)
(* userController: getUserProfile and createOrUpdateUser.  An email is a   *)
(* sequence of pieces; the user documents of this part carry the email.    *)
(* The calls are served one at a time.  u1 (a student address) and v1 (a   *)
(* faculty address) have documents stored without a role; u2 (a student    *)
(* address) and u3 (an address outside the university) sign up.            *)
(***************************************************************************)
FacultyDomain == <<"@", "iiuc.ac.bd">>
StudentDomain == <<"@", "ugrad", ".", "iiuc.ac.bd">>

\* String.prototype.endsWith
EndsWith(text, suffix) ==
    /\ Len(suffix) <= Len(text)
    /\ SubSeq(text, Len(text) - Len(suffix) + 1, Len(text)) = suffix

\* the email of the token of c
TokenEmail(c) ==
    IF c \in {"v1", "v2"} THEN <<"x">> \o FacultyDomain
    ELSE IF c = "u3" THEN <<"x", "@", "gmail.com">>
    ELSE <<"x">> \o StudentDomain

isStudentEmail(email) == EndsWith(email, StudentDomain)

isSupervisorEmail(email) ==
    EndsWith(email, FacultyDomain) /\ ~EndsWith(email, StudentDomain)

isUniversityEmail(email) == isStudentEmail(email) \/ isSupervisorEmail(email)

\* a user document with its email
ProfileUser(uid, role, name, email) ==
    [exists |-> TRUE, uid |-> uid, isAdmin |-> FALSE, role |-> role,
     name |-> name, department |-> "", supervisedProjects |-> {},
     email |-> email, bio |-> NoText]

\* the role worked out without the test of the stored isAdmin flag
UserDataRoleNoAdmin(existingUser, email, bodyRole) ==
    IF bodyRole # "" THEN bodyRole
    ELSE IF ~existingUser.exists
    THEN IF EndsWith(email, StudentDomain) THEN "student"
         ELSE IF EndsWith(email, FacultyDomain) THEN "supervisor"
         ELSE "student"
    ELSE IF existingUser.role = ""
    THEN IF isSupervisorEmail(email) THEN "supervisor" ELSE "student"
    ELSE IF existingUser.role = "student" /\ isSupervisorEmail(email)
    THEN "supervisor"
    ELSE existingUser.role

\* the role createOrUpdateUser stores: the body's, or the one it works out
UserDataRole(existingUser, email, bodyRole) ==
    IF bodyRole # "" THEN bodyRole
    ELSE IF ~existingUser.exists
    THEN IF EndsWith(email, StudentDomain) THEN "student"
         ELSE IF EndsWith(email, FacultyDomain) THEN "supervisor"
         ELSE "student"
    ELSE IF existingUser.isAdmin = TRUE THEN "admin"
    ELSE IF existingUser.role = ""
    THEN IF isSupervisorEmail(email) THEN "supervisor" ELSE "student"
    ELSE IF existingUser.role = "student" /\ isSupervisorEmail(email)
    THEN "supervisor"
    ELSE existingUser.role

\* POST /users: the name, the email check for a new user, the role, the write
createOrUpdateUser(c, bodyName, bodyRole) ==
    /\ c \in Uids
    /\ LET name         == IF bodyName # NoText THEN bodyName ELSE TokenName(c)
           existingUser == FindUser(c)
           email        == TokenEmail(c)
           role         == UserDataRole(existingUser, email, bodyRole)
       IN  IF Len(name) > 100
           THEN /\ resp' = [op |-> "createOrUpdateUser", caller |-> c, code |-> 400]
                /\ UNCHANGED users
           ELSE IF ~existingUser.exists /\ ~isUniversityEmail(email)
           THEN /\ resp' = [op |-> "createOrUpdateUser", caller |-> c, code |-> 403]
                /\ UNCHANGED users
           ELSE IF existingUser.exists
           THEN /\ users' = [users EXCEPT ![c].name = Take(name, 100),
                                          ![c].email = email,
                                          ![c].role = role]
                /\ resp' = [op |-> "createOrUpdateUser", caller |-> c, code |-> 200]
           ELSE /\ users' = [users EXCEPT ![c] =
                                ProfileUser(c, role, Take(name, 100), email)]
                /\ resp' = [op |-> "createOrUpdateUser", caller |-> c, code |-> 201]
    /\ UNCHANGED <<projects, requests, notifications, notifUp, inflight, nextId,
                   lastLike, activities>>

\* the test of getUserProfile for a role to repair
NeedsRoleFix(user) ==
    user.role = "" \/ (user.role = "student" /\ isSupervisorEmail(user.email))

\* GET /users/profile: the document, with the role repaired in the store;
\* the answer records the role sent and whether the store was written
getUserProfile(c) ==
    /\ c \in Uids
    /\ LET user == FindUser(c) IN
       IF ~user.exists
       THEN /\ resp' = [op |-> "getUserProfile", caller |-> c, code |-> 404,
                        role |-> "", wrote |-> FALSE]
            /\ UNCHANGED users
       ELSE IF NeedsRoleFix(user)
       THEN LET updatedRole == IF isSupervisorEmail(user.email)
                               THEN "supervisor" ELSE "student"
            IN  /\ users' = [users EXCEPT ![c].role = updatedRole]
                /\ resp' = [op |-> "getUserProfile", caller |-> c, code |-> 200,
                            role |-> updatedRole, wrote |-> TRUE]
       ELSE /\ resp' = [op |-> "getUserProfile", caller |-> c, code |-> 200,
                        role |-> user.role, wrote |-> FALSE]
            /\ UNCHANGED users
    /\ UNCHANGED <<projects, requests, notifications, notifUp, inflight, nextId,
                   lastLike, activities>>

ProfileUids == {"u1", "u2", "u3", "v1"}

BodyRoles == {"", "student", "supervisor"}

InitProfile ==
    /\ users = [u \in Uids |->
                   IF u \in {"u1", "v1"}
                   THEN ProfileUser(u, "", TokenName(u), TokenEmail(u))
                   ELSE NoUser]
    /\ projects = [p \in Pids |-> NoProject]
    /\ requests = << >>
    /\ notifications = EmptyBag
    /\ notifUp = TRUE
    /\ inflight = [s \in Slots |-> Idle]
    /\ nextId = 0
    /\ resp = NoResp
    /\ lastLike = NoLike
    /\ activities = NoActivities

NextProfile ==
    \/ \E c \in ProfileUids, bodyRole \in BodyRoles :
           createOrUpdateUser(c, NoText, bodyRole)
    \/ \E c \in ProfileUids : getUserProfile(c)

SpecProfile == InitProfile /\ [][NextProfile]_vars

\* the role the email domain calls for: supervisor for a faculty address,
\* student for a student address
DomainRole(email) ==
    IF EndsWith(email, StudentDomain) THEN "student"
    ELSE IF EndsWith(email, FacultyDomain) THEN "supervisor"
    ELSE ""

\* C21: after getUserProfile has returned for a user, the stored role is the
\* role of the email domain whenever the two conflicted before the call, for
\* every stored role (missing, student, supervisor); and a fetch repeated at
\* once writes no role.
C21_ProfileFetchRepairsRole ==
    [][resp'.op = "getUserProfile" =>
          \A c \in ProfileUids :
              (users[c].exists /\ getUserProfile(c))
                  => /\ ( /\ users[c].role \in {"", "student", "supervisor"}
                          /\ DomainRole(users[c].email) # ""
                          /\ users[c].role # DomainRole(users[c].email) )
                        => users'[c].role = DomainRole(users[c].email)
                     /\ ( /\ resp.op = "getUserProfile"
                          /\ resp.caller = c
                          /\ resp.code = 200 )
                        => (users' = users /\ ~resp'.wrote)]_vars

(***************************************************************************)
(* POST /projects: validate(createProjectSchema), then createProject       *)
(***************************************************************************)
MinTitleLen       == 3
JoiMinAbstractLen == 50

\* the Joi schema's verdict on the request body (abortEarly off: any error)
createProjectSchema(body) ==
    /\ Len(body.title) >= MinTitleLen
    /\ Len(body.title) <= MaxTitleLen
    /\ body.abstract.rawLen > 0
    /\ body.abstract.plainLen >= JoiMinAbstractLen
    /\ body.abstract.rawLen <= MaxAbstractLen
    /\ Len(body.techStack) <= MaxTechStack
    /\ Len(body.tags) <= MaxTags
    /\ Len(body.author) <= 100
    /\ Len(body.supervisor) <= 100
    /\ body.year = 0 \/ (body.year >= MinYear /\ body.year <= CurrentYear + 1)
    /\ body.githubLink \in {"", "github.com", "www.github.com"}

\* req.body = value: defaults filled in, unknown keys (supervisorId) stripped
ValidatedBody(body) ==
    [body EXCEPT !.supervisorId = "",
                 !.year = IF body.year = 0 THEN CurrentYear ELSE body.year]

PostProject(c, body) ==
    IF createProjectSchema(body)
    THEN createProject(c, ValidatedBody(body))
    ELSE /\ c \in Uids
         /\ resp' = [op |-> "createProject", caller |-> c, code |-> 400]
         /\ UNCHANGED <<users, projects, requests, notifications, notifUp,
                        inflight, nextId, lastLike, activities>>

(***************************************************************************)
(* Submission and editing: u1 posts projects whose fields sit on and       *)
(* around every limit, one field at a time, and edits the stored ones.     *)
(***************************************************************************)
Entries(n) == [i \in 1..n |-> <<"a">>]

\* an abstract of plainLen characters of text and markup characters of tags
Abstract(plainLen, markup) ==
    [rawLen |-> plainLen + markup, plainLen |-> plainLen, text |-> <<"a", "b">>]

SubmitBase == [CreateBody(<<"a", "b", "c">>, 120) EXCEPT !.abstract = Abstract(120, 30)]

SubmitAbstracts ==
    {Abstract(40, 30), Abstract(80, 30), Abstract(99, 0), Abstract(100, 0),
     Abstract(MaxAbstractLen - 10, 30), Abstract(MaxAbstractLen, 0),
     Abstract(MaxAbstractLen + 1, 0)}

SubmitBodies ==
    {SubmitBase}
    \cup {[SubmitBase EXCEPT !.abstract = a] : a \in SubmitAbstracts}
    \cup {[SubmitBase EXCEPT !.file = f] : f \in {"ok", "fail", "nourl"}}
    \cup {[SubmitBase EXCEPT !.year = y] : y \in {1999, CurrentYear + 2}}
    \cup {[SubmitBase EXCEPT !.githubLink = g] : g \in {"github.com", "evil.com"}}
    \cup {[SubmitBase EXCEPT !.techStack = Entries(MaxTechStack + 1)],
          [SubmitBase EXCEPT !.tags = Entries(MaxTags + 1)],
          [SubmitBase EXCEPT !.supervisorId = "v1"],
          [SubmitBase EXCEPT !.file = "fail", !.abstract = Abstract(80, 30)]}

SubmitUpdateBodies ==
    {[NoUpdate EXCEPT !.year = 1999],
     [NoUpdate EXCEPT !.githubLink = "evil.com"],
     [NoUpdate EXCEPT !.techStack = Entries(MaxTechStack + 1)],
     [NoUpdate EXCEPT !.tags = Entries(MaxTags + 1)]}

InitSubmit ==
    /\ InitStore
    /\ notifUp = TRUE

\* the first submission is the one that gets edited
EditedPids == {p \in Pids : p <= 1}

NextSubmit ==
    \/ \E body \in SubmitBodies : PostProject("u1", body)
    \/ \E p \in EditedPids, body \in SubmitUpdateBodies :
           updateProject("u1", p, body)

SpecSubmit == InitSubmit /\ [][NextSubmit]_vars

\* the create-time field rules of a stored project
FieldRules(project) ==
    /\ project.year >= MinYear
    /\ project.year <= CurrentYear + 1
    /\ project.githubLink \in {"", "github.com", "www.github.com"}
    /\ Len(project.techStack) <= MaxTechStack
    /\ Len(project.tags) <= MaxTags

\* C22: after any sequence of createProject and updateProject calls every
\* stored project has its year within [2000, currentYear + 1], a githubLink
\* that is empty or on github.com / www.github.com, at most 20 techStack
\* entries and at most 10 tags
C22_StoredFieldsValid ==
    \A p \in Pids : projects[p].exists => FieldRules(projects[p])

\* the body's fields are acceptable, whatever becomes of its file
FieldsAccepted(body) ==
    /\ createProjectSchema(body)
    /\ CreateValidation([body EXCEPT !.file = "none"]) = "ok"

\* C23: a createProject whose attached PDF fails to upload (the upload throws
\* or yields no URL) answers 500 UPLOAD_ERROR, inserts no project and sends
\* no notification; a project submitted with a PDF is inserted only with the
\* URL of a successful upload
C23_FailedUploadAbortsCreate ==
    [][resp'.op = "createProject" =>
         \A body \in SubmitBodies :
            PostProject("u1", body) =>
               /\ body.file \in UploadFailures =>
                     /\ projects' = projects
                     /\ notifications' = notifications
                     /\ resp'.code # 201
                     /\ FieldsAccepted(body) => resp'.code = 500
               /\ (body.file # "none" /\ projects' # projects) =>
                     /\ body.file = "ok"
                     /\ projects'[NextPid].pdfUrl # ""]_vars

\* a failed upload after an earlier submission went through
C23_Witness ==
    /\ resp.op = "createProject"
    /\ resp.code = 500
    /\ projects[1].exists
    /\ ~projects[2].exists
    /\ BagCardinality(notifications) = 1

\* the abstracts u1 submits with an otherwise valid body
PostedAbstracts == SubmitAbstracts \cup {SubmitBase.abstract}

\* C24: POST /projects answers 400 and creates no project for every abstract
\* whose plain-text length is below 100 or above 5000, and accepts (201,
\* project stored) every abstract whose plain-text length is 100 to 5000
C24_AbstractLengthWindow ==
    [][resp'.op = "createProject" =>
         \A a \in PostedAbstracts :
            PostProject("u1", [SubmitBase EXCEPT !.abstract = a]) =>
               IF a.plainLen < MinAbstractLen \/ a.plainLen > MaxAbstractLen
               THEN resp'.code = 400 /\ projects' = projects
               ELSE resp'.code = 201 /\ projects'[NextPid].exists]_vars

(***************************************************************************)
(* trackView: the project's view counter and the caller's recent projects  *)
(***************************************************************************)
MaxRecent == 20

\* a document without the field counts as 0 for $inc
Views(project) == IF "views" \in DOMAIN project THEN project.views ELSE 0

\* { $inc: { views: 1 } }
IncViews(project) ==
    [f \in DOMAIN project \cup {"views"} |->
        IF f = "views" THEN Views(project) + 1 ELSE project[f]]

\* the recentProjects array of a user's activity document, if any
RecentProjects(acts, c) ==
    IF acts[c].exists /\ "recentProjects" \in DOMAIN acts[c]
    THEN acts[c].recentProjects ELSE << >>

\* { $pull: { recentProjects: { projectId } } }
PullProject(list, p) == SelectSeq(list, LAMBDA entry : entry.projectId # p)

\* { $push: { recentProjects: { $each: [entry], $position: 0, $slice: 20 } } }
PushRecent(list, entry) == Take(<<entry>> \o list, MaxRecent)

\* the $pull left out: a project viewed again is listed twice
trackViewNoPull(c, p) ==
    /\ c \in Callers
    /\ LET project == FindProject(p) IN
       IF ~project.exists
       THEN /\ resp' = [op |-> "trackView", caller |-> c, code |-> 404]
            /\ UNCHANGED <<projects, activities>>
       ELSE /\ projects' = [projects EXCEPT ![p] = IncViews(project)]
            /\ activities' =
                 IF c = Anon THEN activities
                 ELSE [activities EXCEPT ![c] =
                         [exists |-> TRUE, userId |-> c,
                          recentProjects |->
                             PushRecent(RecentProjects(activities, c),
                                        [projectId    |-> p,
                                         projectTitle |-> project.title])]
                           @@ activities[c]]
            /\ resp' = [op |-> "trackView", caller |-> c, code |-> 200]
    /\ UNCHANGED <<users, requests, notifications, notifUp, inflight, nextId,
                   lastLike>>

trackView(c, p) ==
    /\ c \in Callers
    /\ LET project == FindProject(p) IN
       IF ~project.exists
       THEN /\ resp' = [op |-> "trackView", caller |-> c, code |-> 404]
            /\ UNCHANGED <<projects, activities>>
       ELSE /\ projects' = [projects EXCEPT ![p] = IncViews(project)]
            /\ activities' =
                 IF c = Anon THEN activities
                 ELSE [activities EXCEPT ![c] =
                         [exists |-> TRUE, userId |-> c,
                          recentProjects |->
                             PushRecent(PullProject(RecentProjects(activities, c), p),
                                        [projectId    |-> p,
                                         projectTitle |-> project.title])]
                           @@ activities[c]]
            /\ resp' = [op |-> "trackView", caller |-> c, code |-> 200]
    /\ UNCHANGED <<users, requests, notifications, notifUp, inflight, nextId,
                   lastLike>>

(***************************************************************************)
(* Views: one more project than the recent list holds is stored.  u1 views *)
(* them one after the other in _id order and comes back to project 1 now   *)
(* and then; an anonymous visitor views project 2; both also ask for a     *)
(* project that does not exist.  The calls do not overlap.                 *)
(***************************************************************************)
MaxViews == 3

ViewPids == 1..(MaxRecent + 1)

MissingPid == 0

Viewers == {"u1", Anon}

FirstUnviewed(p) ==
    /\ Views(projects[p]) = 0
    /\ \A q \in ViewPids : q < p => Views(projects[q]) > 0

ViewedAgain(p) == Views(projects[p]) > 0 /\ Views(projects[p]) < MaxViews

Viewable(c, p) ==
    \/ p = MissingPid
    \/ c = "u1" /\ p \in ViewPids /\ FirstUnviewed(p)
    \/ c = "u1" /\ p = 1 /\ ViewedAgain(p)
    \/ c = Anon /\ p = 2 /\ ViewedAgain(p)

InitViews ==
    /\ users = InitUsers
    /\ projects = [p \in ViewPids |-> ProjectData("u1", p, SubmitBase)]
    /\ requests = << >>
    /\ notifications = EmptyBag
    /\ notifUp = FALSE
    /\ inflight = [s \in Slots |-> Idle]
    /\ nextId = 0
    /\ resp = NoResp
    /\ lastLike = NoLike
    /\ activities = NoActivities

NextViews ==
    \E c \in Viewers, p \in ViewPids \cup {MissingPid} :
        Viewable(c, p) /\ trackView(c, p)

SpecViews == InitViews /\ [][NextViews]_vars

\* the projects listed, in list order
ListedIds(list) == [i \in 1..Len(list) |-> list[i].projectId]

\* list a is the beginning of list b
IsPrefix(a, b) == Len(a) <= Len(b) /\ a = SubSeq(b, 1, Len(a))

\* at most MaxRecent entries, no project twice
RecentWellFormed(list) ==
    /\ Len(list) <= MaxRecent
    /\ \A i, j \in 1..Len(list) :
          list[i].projectId = list[j].projectId => i = j

\* the project just viewed first, the others behind it in the order they had,
\* cut at the end only
RecentAfterView(old, new, p) ==
    /\ new # << >>
    /\ new[1].projectId = p
    /\ IsPrefix(Tail(ListedIds(new)),
                SelectSeq(ListedIds(old), LAMBDA q : q # p))
    /\ Len(new) = Min(MaxRecent,
                      1 + Cardinality({i \in 1..Len(old) : old[i].projectId # p}))

\* C25: every completed trackView raises the views counter of its project by
\* exactly 1 and touches no other project; after a completed call of an
\* authenticated caller their recentProjects list has at most 20 entries, no
\* project twice, and is ordered most recently viewed first; a call of an
\* anonymous caller touches no activity record
C25_ViewCountedAndRecentListKept ==
    [][\A c \in Viewers, p \in ViewPids :
          (resp'.op = "trackView" /\ resp'.code = 200 /\ trackView(c, p)) =>
             /\ Views(projects'[p]) = Views(projects[p]) + 1
             /\ \A q \in ViewPids \ {p} : projects'[q] = projects[q]
             /\ c = Anon => activities' = activities
             /\ c # Anon =>
                  /\ RecentWellFormed(RecentProjects(activities', c))
                  /\ RecentAfterView(RecentProjects(activities, c),
                                     RecentProjects(activities', c), p)
                  /\ \A u \in Uids \ {c} : activities'[u] = activities[u]]_vars

\* u1 has viewed all 21 projects and then project 1 again: the list is full,
\* project 1 leads it, and project 2, viewed by a visitor too, has left it
C25_Witness ==
    /\ resp.op = "trackView"
    /\ resp.code = 200
    /\ resp.caller = "u1"
    /\ Len(RecentProjects(activities, "u1")) = MaxRecent
    /\ RecentProjects(activities, "u1")[1].projectId = 1
    /\ \A i \in 1..MaxRecent : RecentProjects(activities, "u1")[i].projectId # 2
    /\ Views(projects[2]) = 2
    /\ Views(projects[MaxRecent + 1]) = 1

\* the comment or reply with this id in a list, NoProject-like if none
EntryWithId(list, id) ==
    IF CommentIndex(list, id) = 0 THEN [exists |-> FALSE]
    ELSE [exists |-> TRUE, entry |-> list[CommentIndex(list, id)]]

\* every reply of every comment of a thread, with the id of its comment
ThreadReplies(comments) ==
    UNION {{[commentId |-> comments[i].id, reply |-> comments[i].replies[j]] :
               j \in 1..Len(comments[i].replies)} : i \in 1..Len(comments)}

StoredAdmin(c) == c \in Uids /\ users[c].exists /\ users[c].isAdmin = TRUE

\* what a step did to the thread of project p is what its caller may do
ThreadChangeAllowed(old, new, op, c) ==
    /\ \A i \in 1..Len(old) :
          LET after == EntryWithId(new, old[i].id) IN
          IF ~after.exists
          THEN op = "deleteComment" /\ (old[i].userId = c \/ StoredAdmin(c))
          ELSE after.entry.content # old[i].content =>
                  op = "editComment" /\ old[i].userId = c
    /\ \A r \in ThreadReplies(old) :
          LET parent == EntryWithId(new, r.commentId)
              after  == IF parent.exists
                        THEN EntryWithId(parent.entry.replies, r.reply.id)
                        ELSE [exists |-> FALSE]
          IN  IF ~parent.exists THEN op = "deleteComment"
              ELSE IF ~after.exists
              THEN op = "deleteReply" /\ (r.reply.userId = c \/ StoredAdmin(c))
              ELSE after.entry.content # r.reply.content =>
                      op = "editReply" /\ r.reply.userId = c

\* a call on an existing comment or reply of project 1 by somebody who may
\* not make it is answered 403 at once
UnauthorisedIsRefused ==
    \A c \in Commenters, i \in Ids :
       LET target == EntryWithId(projects[1].comments, i) IN
       target.exists =>
          /\ (target.entry.userId # c
                /\ EditCommentBegin(FreeSlot, c, 1, i, <<"b">>))
                => resp'.code = 403
          /\ (target.entry.userId # c /\ ~StoredAdmin(c)
                /\ DeleteCommentBegin(FreeSlot, c, 1, i))
                => resp'.code = 403
          /\ \A j \in Ids :
                LET reply == EntryWithId(target.entry.replies, j) IN
                reply.exists =>
                   /\ (reply.entry.userId # c
                         /\ EditReplyBegin(FreeSlot, c, 1, i, j, <<"b">>))
                         => resp'.code = 403
                   /\ (reply.entry.userId # c /\ ~StoredAdmin(c)
                         /\ DeleteReplyBegin(FreeSlot, c, 1, i, j))
                         => resp'.code = 403

\* C26: a comment or reply is changed only by editComment / editReply of its
\* own author (an admin who is not the author is refused) and removed only by
\* deleteComment / deleteReply of its author or of a caller stored as admin;
\* every call refused for that reason is answered 403 and leaves the
\* project's comments and commentCount as they were
C26_OnlyAuthorEditsAuthorOrAdminDeletes ==
    [][/\ projects' # projects =>
             \A p \in CommentPids :
                (projects[p].exists /\ projects'[p].exists) =>
                   ThreadChangeAllowed(projects[p].comments,
                                       projects'[p].comments,
                                       resp'.op, resp'.caller)
       /\ (resp' # resp /\ inflight' = inflight) => UnauthorisedIsRefused
       /\ (resp' # resp /\ resp'.code = 403) => projects' = projects]_vars

\* the admin u2 has just been refused the edit of a reply u1 wrote
C26_Witness ==
    /\ resp = [op |-> "editReply", caller |-> "u2", code |-> 403]
    /\ Len(projects[1].comments) = 1
    /\ Len(projects[1].comments[1].replies) = 1
    /\ projects[1].comments[1].replies[1].userId = "u1"
    /\ projects[1].comments[1].replies[1].content = <<"a">>
    /\ projects[1].commentCount = 2

\* the list without its i-th entry
RemoveAt(list, i) == SubSeq(list, 1, i - 1) \o SubSeq(list, i + 1, Len(list))

\* C27: a successful deleteComment of a top-level comment holding k replies
\* removes that comment with its k replies, lowers commentCount by exactly
\* 1 + k in the same write, and leaves every other comment and reply of the
\* project, and every other project, as it was
C27_DeleteCommentTakesRepliesAlong ==
    [][\A s \in Slots :
          (inflight[s].op = "deleteComment" /\ inflight'[s] = Idle) =>
             LET p   == inflight[s].pid
                 old == projects[p].comments
                 i   == CommentIndex(old, inflight[s].commentId)
             IN  /\ resp'.code = 200
                 /\ i # 0
                 /\ projects'[p].comments = RemoveAt(old, i)
                 /\ projects'[p].commentCount =
                       projects[p].commentCount - (1 + Len(old[i].replies))
                 /\ projects'[p] = [projects[p] EXCEPT
                                       !.comments = projects'[p].comments,
                                       !.commentCount = projects'[p].commentCount]
                 /\ \A q \in Pids \ {p} : projects'[q] = projects[q]]_vars

\* u1 has deleted the own second comment, which held a reply; the first
\* comment is still there
C27_Witness ==
    /\ resp = [op |-> "deleteComment", caller |-> "u1", code |-> 200]
    /\ nextId = 3
    /\ Len(projects[1].comments) = 1
    /\ projects[1].comments[1].id = 1
    /\ projects[1].comments[1].replies = << >>
    /\ projects[1].commentCount = 1

(***************************************************************************)
(* Likes with repeated requests: u1 and u2 like and unlike project 1 and   *)
(* send the next request without waiting for the answer to the previous    *)
(* one (a double click, a retry), so requests of one caller overlap too.   *)
(***************************************************************************)
MaxLikeDrift == 2

RepeatLikers == {"u1", "u2"}

\* the counter is within MaxLikeDrift of the size of the like set
WithinDrift(p) ==
    projects[p].exists =>
        /\ projects[p].likeCount - Cardinality(projects[p].likes) < MaxLikeDrift
        /\ Cardinality(projects[p].likes) - projects[p].likeCount < MaxLikeDrift

NextLikeRace ==
    \/ \E s \in Slots, c \in RepeatLikers, p \in Pids :
           WithinDrift(p) /\ ToggleLikeBegin(s, c, p)
    \/ \E s \in Slots : ToggleLikeWrite(s)

SpecLikeRace == InitLikes /\ [][NextLikeRace]_vars

\* C28: in every reachable state the likeCount of every stored project is
\* the number of identities in its likes, also when two toggleLike requests
\* of one caller on one project have both read the project before either
\* has written
C28_LikeCountIsLikesUnderOverlap ==
    \A doc \in ProjectDocs : Cardinality(doc.likes) = doc.likeCount

(***************************************************************************)
(* Comments with overlapping requests: u1 comments, replies, edits and     *)
(* deletes on the own approved project 1 from two browser tabs, so one     *)
(* request may read the thread while another is between its read and its   *)
(* write.  At most two requests are in progress at a time.                 *)
(***************************************************************************)
InitThread == InitComments

MaxCountDrift == 1

\* the counter of project 1 is within MaxCountDrift of the size of its thread
CountWithinDrift ==
    LET total == CommentTotal(projects[1].comments)
        count == projects[1].commentCount
    IN  count - total < MaxCountDrift /\ total - count < MaxCountDrift

\* addComment and deleteComment update by operator, the others write the
\* whole comments array back
ArrayWriters == {"addReply", "editComment", "editReply", "deleteReply"}

\* a request of this kind may start: the lowest idle slot serves it, and the
\* only request in progress, if any, is of the other kind
RoomForRequest(s, arrayWriter) ==
    /\ LowestIdle(s)
    /\ CountWithinDrift
    /\ \A t \in Slots :
          inflight[t] # Idle => (inflight[t].op \in ArrayWriters) # arrayWriter

\* the comment ids worth sending: those stored, and 1 for "not found"
ThreadIds == {i \in Ids : i = 1 \/ CommentIndex(projects[1].comments, i) # 0}

NextThread ==
    \/ \E s \in Slots :
           RoomForRequest(s, FALSE) /\ AddCommentBegin(s, "u1", 1, <<"a">>)
    \/ \E s \in Slots, i \in ThreadIds :
           RoomForRequest(s, TRUE) /\ EditCommentBegin(s, "u1", 1, i, <<"b">>)
    \/ \E s \in Slots, i \in ThreadIds :
           RoomForRequest(s, FALSE) /\ DeleteCommentBegin(s, "u1", 1, i)
    \/ \E s \in Slots, i \in ThreadIds :
           RoomForRequest(s, TRUE) /\ AddReplyBegin(s, "u1", 1, i, <<"a">>)
    \/ \E s \in Slots, i \in ThreadIds : \E j \in ReplyIdsFor(1, i) :
           RoomForRequest(s, TRUE) /\ EditReplyBegin(s, "u1", 1, i, j, <<"b">>)
    \/ \E s \in Slots, i \in ThreadIds : \E j \in ReplyIdsFor(1, i) :
           RoomForRequest(s, TRUE) /\ DeleteReplyBegin(s, "u1", 1, i, j)
    \/ \E s \in Slots : AddCommentWrite(s)
    \/ \E s \in Slots : EditCommentWrite(s)
    \/ \E s \in Slots : DeleteCommentWrite(s)
    \/ \E s \in Slots : AddReplyWrite(s)
    \/ \E s \in Slots : EditReplyWrite(s)
    \/ \E s \in Slots : DeleteReplyWrite(s)

SpecThread == InitThread /\ [][NextThread]_vars

\* C29: in every reachable state the commentCount of every stored project is
\* the number of its stored comments plus the number of their stored replies,
\* also when an addComment or deleteComment takes effect between the read
\* and the whole-array write of an addReply, editComment, editReply or
\* deleteReply on the same project
C29_CommentCountIsTotalUnderOverlap ==
    \A doc \in ProjectDocs : CommentTotal(doc.comments) = doc.commentCount

\* the ids of the comments and of the replies stored in a thread
StoredCommentIds(comments) == {comments[i].id : i \in 1..Len(comments)}

StoredReplyIds(comments) == {r.reply.id : r \in ThreadReplies(comments)}

\* the request whose write this step is, if it is one
WriterOf(s) == inflight[s] # Idle /\ inflight'[s] = Idle

\* C30: a comment (or reply) stored by a successful addComment (addReply)
\* leaves the thread only by the write of a deleteComment (deleteReply, or
\* the deleteComment of its comment) that removes it, also when editComment,
\* editReply, addReply or deleteReply calls on other comments of the project
\* are in progress
C30_StoredCommentsStayUntilDeleted ==
    [][projects'[1].comments # projects[1].comments =>
         /\ \A id \in StoredCommentIds(projects[1].comments)
                         \ StoredCommentIds(projects'[1].comments) :
               \E s \in Slots : /\ WriterOf(s)
                                /\ inflight[s].op = "deleteComment"
                                /\ inflight[s].commentId = id
         /\ \A id \in StoredReplyIds(projects[1].comments)
                         \ StoredReplyIds(projects'[1].comments) :
               \E s \in Slots : /\ WriterOf(s)
                                /\ inflight[s].op \in {"deleteComment",
                                                       "deleteReply"}]_vars

(***************************************************************************)
(* Approvals that stop half-way: the server process may die between any    *)
(* two awaits of respondToRequest; the handler then never continues and    *)
(* the client gets no answer.  u1 asks v1 and v2 to supervise project 1,   *)
(* then v1 and v2 respond, two responses may overlap.  The notification    *)
(* store is unreachable.                                                   *)
(***************************************************************************)
Crash(s) ==
    /\ inflight[s].op = "respondToRequest"
    /\ inflight' = [inflight EXCEPT ![s] = Idle]
    /\ UNCHANGED <<users, projects, requests, notifications, notifUp, nextId,
                   resp, lastLike, activities>>

InitCrash ==
    /\ users = InitUsers
    /\ projects = [p \in Pids |-> IF p = 1 THEN ApprovedProject(1, "u1")
                                          ELSE NoProject]
    /\ requests = << >>
    /\ notifications = EmptyBag
    /\ notifUp = FALSE
    /\ inflight = [s \in Slots |-> Idle]
    /\ nextId = 0
    /\ resp = NoResp
    /\ lastLike = NoLike
    /\ activities = NoActivities

NextCrash ==
    \/ \E v \in Responders :
           /\ AllIdle
           /\ resp.op # "respondToRequest"
           /\ SendRequestBegin(FreeSlot, "u1", v, 1)
    \/ \E s \in Slots : SendRequestWrite(s)
    \/ \E s \in Slots, c \in Responders, rid \in Rids, a \in Actions :
           /\ LowestIdle(s)
           /\ SendsInFlight = 0
           /\ Cardinality({t \in Slots : inflight[t] # Idle}) <= 1
           /\ RespondBegin(s, c, rid, a)
    \/ \E s \in Slots : RespondStatusWrite(s)
    \/ \E s \in Slots : RespondProjectWrite(s)
    \/ \E s \in Slots : RespondUserWrite(s)
    \/ \E s \in Slots : RespondNotify(s)
    \/ \E s \in Slots : Crash(s)

SpecCrash == InitCrash /\ [][NextCrash]_vars

\* supervisor v has an approved request for project p
ApprovedFor(v, p) ==
    \E i \in 1..Len(requests) :
        /\ requests[i].status = "approved"
        /\ requests[i].supervisorId = v
        /\ requests[i].projectId = p

\* C31: the writes of an approval come in the order request status, project
\* supervisor fields, supervisedProjects, so in every reachable state, also
\* after a crash between two writes, a project with supervisor fields set by
\* respondToRequest has an approved request of that supervisor, and a project
\* id in a supervisor's supervisedProjects has an approved request of that
\* supervisor and a project whose supervisor fields are written; what a
\* crash leaves is an approved request without the project updated, or an
\* updated project not yet in supervisedProjects
C31_ApprovalWritesInOrder ==
    /\ \A p \in Pids :
          (projects[p].exists /\ projects[p].supervisorId # "")
             => ApprovedFor(projects[p].supervisorId, p)
    /\ \A v \in Responders : \A p \in users[v].supervisedProjects :
          /\ ApprovedFor(v, p)
          /\ projects[p].exists => projects[p].supervisorId # ""

\* v1's approval died after the project write: project 1 names v1, v1's
\* supervisedProjects does not hold it, nothing is in progress and no
\* response was answered
C31_Witness ==
    /\ AllIdle
    /\ resp.op = "sendRequest"
    /\ ApprovedFor("v1", 1)
    /\ projects[1].supervisorId = "v1"
    /\ users["v1"].supervisedProjects = {}

(***************************************************************************)
(* Supervisor assignment over a project's life: u1 asks v1 and v2 to       *)
(* supervise project 1, they respond, u1 re-assigns the supervisor with    *)
(* updateProject or deletes the project, u2 submits a project that names a *)
(* supervisor.  Every request is served alone; both versions of the        *)
(* approval's project write that the repository holds are served.          *)
(***************************************************************************)
OtherName == <<"Z">>

\* updateProject bodies that name a supervisor, by id or by display name
AssignBodies ==
    {[NoUpdate EXCEPT !.supervisorId = v] : v \in {"v2", "u2"}}
      \cup {[NoUpdate EXCEPT !.supervisor = n] : n \in {OtherName, TokenName("v1")}}

\* POST /projects bodies that name a supervisor
AssignCreateBodies ==
    {[SubmitBase EXCEPT !.supervisorId = "v1"],
     [SubmitBase EXCEPT !.supervisor = OtherName]}

InitAssign == InitCrash

NextAssign ==
    \/ \E v \in Responders :
           /\ AllIdle
           /\ resp.op \in {"none", "sendRequest"}
           /\ SendRequestBegin(FreeSlot, "u1", v, 1)
    \/ \E s \in Slots : SendRequestWrite(s)
    \/ \E c \in Responders, rid \in Rids, a \in Actions :
           AllIdle /\ RespondBegin(FreeSlot, c, rid, a)
    \/ \E s \in Slots : RespondStatusWrite(s)
    \/ \E s \in Slots : RespondProjectWrite(s)
    \/ \E s \in Slots : RespondProjectWriteIdOnly(s)
    \/ \E s \in Slots : RespondUserWrite(s)
    \/ \E s \in Slots : RespondNotify(s)
    \/ \E body \in AssignBodies : AllIdle /\ updateProject("u1", 1, body)
    \/ \E body \in AssignCreateBodies : AllIdle /\ PostProject("u2", body)
    \/ AllIdle /\ deleteProject("u1", 1)

SpecAssign == InitAssign /\ [][NextAssign]_vars

\* C32: whenever no request is in flight, every project id in a supervisor's
\* supervisedProjects is the id of an existing project whose supervisorId is
\* that supervisor
C32_SupervisedProjectsMatchProjects ==
    AllIdle =>
        \A v \in Responders : \A p \in users[v].supervisedProjects :
            /\ FindProject(p).exists
            /\ FindProject(p).supervisorId = v

\* the denormalized triple of a project document agrees with the users
\* collection, or holds a display name only
TripleConsistent(project) ==
    IF project.supervisorId # ""
    THEN /\ FindUser(project.supervisorId).exists
         /\ FindUser(project.supervisorId).role = "supervisor"
         /\ project.supervisor = FindUser(project.supervisorId).name
         /\ project.supervisorDepartment = FindUser(project.supervisorId).department
    ELSE project.supervisorDepartment = ""

\* updateProject by display name: a name other than the stored one clears
\* supervisorId and supervisorDepartment, the stored name changes nothing
ReassignByName ==
    [][\A body \in AssignBodies :
          (AllIdle /\ body.supervisorId = "" /\ projects[1].exists
             /\ updateProject("u1", 1, body))
          => IF body.supervisor = projects[1].supervisor
             THEN projects' = projects
             ELSE /\ projects'[1].supervisor = body.supervisor
                  /\ projects'[1].supervisorId = ""
                  /\ projects'[1].supervisorDepartment = ""]_vars

\* C33: after every createProject, updateProject or approval that writes a
\* project's supervisor assignment the stored triple is consistent: a
\* non-empty supervisorId comes with the name and department of the user of
\* that id, who has role 'supervisor', and an empty supervisorId comes with
\* an empty supervisorDepartment
C33_SupervisorTripleConsistent ==
    \A p \in Pids : projects[p].exists => TripleConsistent(projects[p])

\* C34: a project's status goes from 'pending' to 'approved' only in a step
\* that answers an updateProjectStatus call of a caller whose stored isAdmin
\* flag is true
C34_OnlyAdminApproves ==
    [][\A p \in Pids :
          (/\ projects[p].exists /\ projects[p].status = "pending"
           /\ projects'[p].exists /\ projects'[p].status = "approved")
          => /\ resp'.op = "updateProjectStatus"
             /\ resp'.code = 200
             /\ IsAdminStrict(resp'.caller)]_vars

(***************************************************************************)
(* Deleting a project that other collections refer to: u1 asks v1 to       *)
(* supervise project 1 and v1 responds (requests, notifications,           *)
(* supervisedProjects), u2 views the projects (activities), and u1, the    *)
(* student u2 and the unregistered u3 send DELETE for project 1, project 2 *)
(* and a project that does not exist.  Every request is served alone.      *)
(***************************************************************************)
Deleters == {"u1", "u2", "u3"}

NotViewedBy(c, p) ==
    \A i \in 1..Len(RecentProjects(activities, c)) :
        RecentProjects(activities, c)[i].projectId # p

InitDelete == InitRequests

NextDelete ==
    \/ /\ AllIdle
       /\ resp.op \in {"none", "trackView"}
       /\ SendRequestBegin(FreeSlot, "u1", "v1", 1)
    \/ \E s \in Slots : SendRequestWrite(s)
    \/ \E rid \in Rids, a \in Actions :
           AllIdle /\ RespondBegin(FreeSlot, "v1", rid, a)
    \/ \E s \in Slots : RespondStatusWrite(s)
    \/ \E s \in Slots : RespondProjectWrite(s)
    \/ \E s \in Slots : RespondUserWrite(s)
    \/ \E s \in Slots : RespondNotify(s)
    \/ \E p \in Pids : AllIdle /\ NotViewedBy("u2", p) /\ trackView("u2", p)
    \/ \E c \in Deleters, p \in Pids \cup {MissingPid} :
           AllIdle /\ deleteProject(c, p)

SpecDelete == InitDelete /\ [][NextDelete]_vars

\* C35: deleteProject is a hard delete that cascades nothing: a successful
\* call removes the target project and no other, a refused call removes
\* nothing, and either leaves all notifications, all supervision requests,
\* all users with their supervisedProjects and all activity records as they
\* were
C35_DeleteCascadesNothing ==
    [][resp'.op = "deleteProject" =>
         \A c \in Deleters, p \in Pids \cup {MissingPid} :
            (AllIdle /\ deleteProject(c, p)) =>
               /\ notifications' = notifications
               /\ requests' = requests
               /\ users' = users
               /\ activities' = activities
               /\ IF resp'.code = 200
                  THEN /\ FindProject(p).exists
                       /\ ~projects'[p].exists
                       /\ \A q \in Pids \ {p} : projects'[q] = projects[q]
                  ELSE projects' = projects]_vars

\* project 1 is gone by a successful delete while an approved request, a
\* notification, v1's supervisedProjects and u2's recent list still name it
C35_Witness ==
    /\ resp = [op |-> "deleteProject", caller |-> "u1", code |-> 200]
    /\ ~projects[1].exists
    /\ ApprovedFor("v1", 1)
    /\ 1 \in users["v1"].supervisedProjects
    /\ \E n \in BagToSet(notifications) : n.projectId = 1
    /\ ~NotViewedBy("u2", 1)

(***************************************************************************)
(* Profile edits.  PUT /users/profile (updateUserProfile) and the          *)
(* supervisor's PUT /supervisors/:id/profile (updateProfile) copy the      *)
(* fields of a fixed list from the body; a body may carry other keys, such *)
(* as isAdmin.  req.user is { uid, email, name }: its isAdmin is undefined *)
(***************************************************************************)
\* req.body of a profile edit: name may be absent; isAdmin is an extra key
EditBody(hasName, name, bio, isAdmin) ==
    [hasName |-> hasName, name |-> name, bio |-> bio, isAdmin |-> isAdmin]

updateUserProfile(c, body) ==
    /\ c \in Uids
    /\ LET code == IF body.hasName /\ (Len(body.name) = 0 \/ Len(body.name) > 100)
                   THEN 400
                   ELSE IF Len(body.bio) > 500 THEN 400
                   ELSE IF ~FindUser(c).exists THEN 404
                   ELSE 200
       IN  /\ resp' = [op |-> "updateUserProfile", caller |-> c, code |-> code]
           /\ users' = IF code = 200
                       THEN [users EXCEPT
                               ![c].name = IF body.hasName THEN body.name ELSE @,
                               ![c].bio = body.bio]
                       ELSE users
    /\ UNCHANGED <<projects, requests, notifications, notifUp, inflight, nextId,
                   lastLike, activities>>

\* $set: req.body, the list of allowed fields left out
updateProfileAllFields(c, id, body) ==
    /\ c \in Uids
    /\ LET code == IF c # id THEN 403
                   ELSE IF ~(FindUser(id).exists /\ FindUser(id).role = "supervisor")
                   THEN 404
                   ELSE 200
       IN  /\ resp' = [op |-> "updateProfile", caller |-> c, code |-> code]
           /\ users' = IF code = 200
                       THEN [users EXCEPT ![id].bio = body.bio,
                                          ![id].isAdmin = body.isAdmin]
                       ELSE users
    /\ UNCHANGED <<projects, requests, notifications, notifUp, inflight, nextId,
                   lastLike, activities>>

updateProfile(c, id, body) ==
    /\ c \in Uids
    /\ LET code == IF c # id THEN 403
                   ELSE IF ~(FindUser(id).exists /\ FindUser(id).role = "supervisor")
                   THEN 404
                   ELSE 200
       IN  /\ resp' = [op |-> "updateProfile", caller |-> c, code |-> code]
           /\ users' = IF code = 200
                       THEN [users EXCEPT ![id].bio = body.bio]
                       ELSE users
    /\ UNCHANGED <<projects, requests, notifications, notifUp, inflight, nextId,
                   lastLike, activities>>

(***************************************************************************)
(* Accounts: u1 (student) and v1 (supervisor) are registered, u2 is not    *)
(* yet, v2 never registers; u3 signs in with an address outside the        *)
(* university and is either unregistered or has a record from before the   *)
(* domain check.  An operator grants u1 admin with the script and          *)
(* withdraws it.                                                           *)
(***************************************************************************)
AccountUids == {"u1", "u2", "u3", "v1"}

EditBodies ==
    {EditBody(FALSE, NoText, <<"b">>, TRUE), EditBody(TRUE, NoText, NoText, TRUE),
     EditBody(TRUE, <<"Z">>, NoText, FALSE)}

InitAccount ==
    /\ \E legacy \in BOOLEAN :
         users = [u \in Uids |->
                    IF u = "u1" THEN ProfileUser(u, "student", TokenName(u), TokenEmail(u))
                    ELSE IF u = "v1"
                    THEN ProfileUser(u, "supervisor", TokenName(u), TokenEmail(u))
                    ELSE IF u = "u3" /\ legacy
                    THEN ProfileUser(u, "student", TokenName(u), TokenEmail(u))
                    ELSE NoUser]
    /\ projects = [p \in Pids |-> NoProject]
    /\ requests = << >>
    /\ notifications = EmptyBag
    /\ notifUp = TRUE
    /\ inflight = [s \in Slots |-> Idle]
    /\ nextId = 0
    /\ resp = NoResp
    /\ lastLike = NoLike
    /\ activities = NoActivities

NextAccount ==
    \/ \E c \in {"u1", "u2", "u3"}, bodyRole \in BodyRoles :
           createOrUpdateUser(c, NoText, bodyRole)
    \/ \E c \in AccountUids : getUserProfile(c)
    \/ \E c \in {"u1", "v2"}, body \in EditBodies : updateUserProfile(c, body)
    \/ \E c \in {"v1", "u1"}, id \in {"v1", "u1"}, body \in EditBodies :
           updateProfile(c, id, body)
    \/ setAdmin("u1")
    \/ revokeAdmin("u1")

SpecAccount == InitAccount /\ [][NextAccount]_vars

\* the user is stored with the admin flag
HasAdminFlag(us, u) == us[u].exists /\ us[u].isAdmin = TRUE

\* C36: no request through createOrUpdateUser, updateUserProfile, the
\* supervisor's updateProfile or getUserProfile gives a user the isAdmin flag:
\* a user who has the flag after a step and had not before was granted it by
\* the out-of-band script in that step
C36_HandlersNeverGrantAdmin ==
    [][\A u \in AccountUids :
          (HasAdminFlag(users', u) /\ ~HasAdminFlag(users, u))
             => /\ resp' = resp
                /\ setAdmin(u)]_vars

\* the supervisor v1 has edited the own profile with a body that carries
\* isAdmin: true, and u2 has registered; neither is an admin
C36_Witness ==
    /\ resp = [op |-> "updateProfile", caller |-> "v1", code |-> 200]
    /\ users["v1"].bio = <<"b">>
    /\ ~HasAdminFlag(users, "v1")
    /\ users["u2"].exists /\ ~HasAdminFlag(users, "u2")

\* C40: createOrUpdateUser for a uid without a record and a token email
\* outside the university domains answers 403 (INVALID_EMAIL_DOMAIN) and
\* stores nothing; for a uid with a record the domain is not looked at, the
\* call answers 200, the record stays and takes the token's email, and with
\* no role in the body the role stored is 'admin' if the stored isAdmin flag
\* is true
C40_DomainCheckedForNewUsersOnly ==
    [][resp'.op = "createOrUpdateUser" =>
         \A c \in AccountUids, bodyRole \in BodyRoles :
            createOrUpdateUser(c, NoText, bodyRole) =>
               /\ (~users[c].exists /\ ~isUniversityEmail(TokenEmail(c)))
                     => (resp'.code = 403 /\ users' = users)
               /\ (~users[c].exists /\ isUniversityEmail(TokenEmail(c)))
                     => (resp'.code = 201 /\ users'[c].exists)
               /\ users[c].exists
                     => /\ resp'.code = 200
                        /\ users'[c].exists
                        /\ users'[c].email = TokenEmail(c)
                        /\ users'[c].isAdmin = users[c].isAdmin
                        /\ (users[c].isAdmin /\ bodyRole = "")
                              => users'[c].role = "admin"]_vars

\* u3, unregistered with an outside address, has just been refused, and the
\* admin u1 was stored with role 'admin' by an earlier call
C40_Witness ==
    /\ resp = [op |-> "createOrUpdateUser", caller |-> "u3", code |-> 403]
    /\ ~users["u3"].exists
    /\ HasAdminFlag(users, "u1")
    /\ users["u1"].role = "admin"

\* u3 has a record with an outside address and has just updated it
LegacyUpdated ==
    /\ resp = [op |-> "createOrUpdateUser", caller |-> "u3", code |-> 200]
    /\ users["u3"].exists
    /\ ~isUniversityEmail(users["u3"].email)

(***************************************************************************)
(* GET /projects/user/:userId: verifyToken, then getUserProjects.          *)
(* verifyToken stores { uid, email, name } in req.user; req.user.isAdmin   *)
(* is written by requireAdmin only, which is not on this route.            *)
(***************************************************************************)
\* req.user.isAdmin as verifyToken leaves it: undefined
ReqUserIsAdmin(c) == FALSE

\* the _ids of find({ authorId: userId })
ProjectsOf(userId) ==
    {p \in Pids : projects[p].exists /\ projects[p].authorId = userId}

\* the answer records the userId asked for and the _ids returned
getUserProjects(c, param) ==
    /\ c \in Uids
    /\ LET userId == IF param = "me" THEN c ELSE param IN
       resp' = IF userId # c /\ ~ReqUserIsAdmin(c)
               THEN [op |-> "getUserProjects", caller |-> c, code |-> 403,
                     userId |-> userId, ids |-> {}]
               ELSE [op |-> "getUserProjects", caller |-> c, code |-> 200,
                     userId |-> userId, ids |-> ProjectsOf(userId)]
    /\ UNCHANGED <<users, projects, requests, notifications, notifUp, inflight,
                   nextId, lastLike, activities>>

(***************************************************************************)
(* Listings: u1 and u2 submit projects and delete their own, an operator   *)
(* grants u2 admin and withdraws it, and u1, u2 and the unregistered u3    *)
(* ask for the projects of u1, of u2 and of 'me'.                          *)
(***************************************************************************)
ListParams == {"me", "u1", "u2"}

InitListing ==
    /\ users = InitUsers
    /\ projects = [p \in Pids |-> NoProject]
    /\ requests = << >>
    /\ notifications = EmptyBag
    /\ notifUp = FALSE
    /\ inflight = [s \in Slots |-> Idle]
    /\ nextId = 0
    /\ resp = NoResp
    /\ lastLike = NoLike
    /\ activities = NoActivities

NextListing ==
    \/ \E c \in {"u1", "u2"} : PostProject(c, SubmitBase)
    \/ \E c \in {"u1", "u2"}, p \in Pids : projects[p].exists /\ deleteProject(c, p)
    \/ setAdmin("u2")
    \/ revokeAdmin("u2")
    \/ \E c \in {"u1", "u2", "u3"}, param \in ListParams : getUserProjects(c, param)

SpecListing == InitListing /\ [][NextListing]_vars

\* C37: getUserProjects returns another user's projects when, and only
\* when, the caller is an admin: a caller whose stored isAdmin flag is true,
\* or who asks for the own userId, is answered 200 with the projects of that
\* userId, and every other caller is answered 403
C37_OthersProjectsForAdminsOnly ==
    [][resp'.op = "getUserProjects" =>
         IF resp'.userId = resp'.caller \/ IsAdminStrict(resp'.caller)
         THEN resp'.code = 200 /\ resp'.ids = ProjectsOf(resp'.userId)
         ELSE resp'.code = 403]_vars

(***************************************************************************)
(* Failures.  A request has thrown: the error is handed to the global      *)
(* errorHandler (next(err)), or caught by the controller's own catch       *)
(* block.  The request record holds the error and process.env.NODE_ENV,    *)
(* "" for an unset variable.                                               *)
(***************************************************************************)
Environments == {"development", "production", "test", "staging", ""}

ErrorNames == {"Error", "CastError", "ValidationError", "JsonWebTokenError",
               "TokenExpiredError"}

\* statusCode 0: the error has none
Errors ==
    {[name |-> n, isOperational |-> o, statusCode |-> IF o THEN 404 ELSE 0,
      duplicateKey |-> d] :
        n \in ErrorNames, o \in BOOLEAN, d \in BOOLEAN}

FailedRequests ==
    {[op |-> "failed", via |-> v, NODE_ENV |-> env, err |-> x] :
        v \in {"next", "catch"}, env \in Environments, x \in Errors}

\* res.status(err.statusCode).json({ status, error: err, message, stack })
sendErrorDev(err) ==
    [op |-> "errorHandler", caller |-> Anon, code |-> err.statusCode,
     message |-> "err.message", stack |-> TRUE]

\* the message of an operational error, or 'Something went wrong!'
sendErrorProd(err) ==
    IF err.isOperational
    THEN [op |-> "errorHandler", caller |-> Anon, code |-> err.statusCode,
          message |-> err.message, stack |-> FALSE]
    ELSE [op |-> "errorHandler", caller |-> Anon, code |-> 500,
          message |-> "generic", stack |-> FALSE]

\* the AppError a known kind of error is replaced by in production
Handled(err) ==
    IF err.name = "TokenExpiredError" \/ err.name = "JsonWebTokenError"
    THEN [isOperational |-> TRUE, statusCode |-> 401, message |-> "fixed"]
    ELSE IF err.name \in {"CastError", "ValidationError"} \/ err.duplicateKey
    THEN [isOperational |-> TRUE, statusCode |-> 400, message |-> "derived"]
    ELSE [isOperational |-> err.isOperational, statusCode |-> err.statusCode,
          message |-> "err.message"]

errorHandler(s) ==
    /\ inflight[s].op = "failed"
    /\ inflight[s].via = "next"
    /\ LET err == [inflight[s].err EXCEPT
                      !.statusCode = IF @ = 0 THEN 500 ELSE @]
       IN  resp' = IF inflight[s].NODE_ENV = "development" THEN sendErrorDev(err)
                   ELSE IF inflight[s].NODE_ENV = "production"
                   THEN sendErrorProd(Handled(err))
                   ELSE sendErrorDev(err)
    /\ inflight' = [inflight EXCEPT ![s] = Idle]
    /\ UNCHANGED <<users, projects, requests, notifications, notifUp, nextId,
                   lastLike, activities>>

\* the catch block of a controller: a fixed message and code, and
\* error: NODE_ENV === 'development' ? error.message : undefined
controllerCatch(s) ==
    /\ inflight[s].op = "failed"
    /\ inflight[s].via = "catch"
    /\ resp' = [op |-> "catch", caller |-> Anon, code |-> 500,
                message |-> IF inflight[s].NODE_ENV = "development"
                            THEN "err.message" ELSE "generic",
                stack |-> FALSE]
    /\ inflight' = [inflight EXCEPT ![s] = Idle]
    /\ UNCHANGED <<users, projects, requests, notifications, notifUp, nextId,
                   lastLike, activities>>

InitErrors ==
    /\ users = InitUsers
    /\ projects = [p \in Pids |-> NoProject]
    /\ requests = << >>
    /\ notifications = EmptyBag
    /\ notifUp = FALSE
    /\ \E r \in FailedRequests :
          inflight = [s \in Slots |-> IF s = 1 THEN r ELSE Idle]
    /\ nextId = 0
    /\ resp = NoResp
    /\ lastLike = NoLike
    /\ activities = NoActivities

NextErrors ==
    \/ \E s \in Slots : errorHandler(s)
    \/ \E s \in Slots : controllerCatch(s)

SpecErrors == InitErrors /\ [][NextErrors]_vars

\* C38: the response to an unexpected (non-operational) failure carries
\* internal detail, the error's message or its stack, only when the
\* environment name is exactly 'development'
C38_DetailInDevelopmentOnly ==
    [][\A s \in Slots :
          (/\ inflight[s].op = "failed"
           /\ ~inflight[s].err.isOperational
           /\ inflight'[s] = Idle)
          => ((resp'.stack \/ resp'.message = "err.message")
                 => inflight[s].NODE_ENV = "development")]_vars

(***************************************************************************)
(* toggleBookmark: the caller's activity document and the project's        *)
(* bookmarks array are written one after the other, each from its own      *)
(* test.  bookmarkedAt is not modelled.                                    *)
(***************************************************************************)
\* activity?.bookmarkedProjects || []
BookmarkedProjects(acts, c) ==
    IF acts[c].exists /\ "bookmarkedProjects" \in DOMAIN acts[c]
    THEN acts[c].bookmarkedProjects ELSE << >>

\* project.bookmarks || []
Bookmarks(project) ==
    IF "bookmarks" \in DOMAIN project THEN project.bookmarks ELSE {}

isBookmarked(acts, c, p) ==
    \E i \in 1..Len(BookmarkedProjects(acts, c)) :
        BookmarkedProjects(acts, c)[i].projectId = p

\* updateOne({ userId }, $pull or $push on bookmarkedProjects, { upsert: true })
ToggledActivity(acts, c, p) ==
    [exists |-> TRUE, userId |-> c,
     bookmarkedProjects |->
        IF isBookmarked(acts, c, p)
        THEN SelectSeq(BookmarkedProjects(acts, c), LAMBDA bp : bp.projectId # p)
        ELSE Append(BookmarkedProjects(acts, c), [projectId |-> p])]
      @@ acts[c]

\* updateOne({ _id }, $pull or $addToSet on bookmarks)
ToggledProject(project, c) ==
    [bookmarks |-> IF c \in Bookmarks(project)
                   THEN Bookmarks(project) \ {c}
                   ELSE Bookmarks(project) \cup {c}]
      @@ project

\* the write to the project left out
toggleBookmarkActivityOnly(c, p) ==
    /\ c \in Uids
    /\ LET project == FindProject(p) IN
       IF ~project.exists
       THEN /\ resp' = [op |-> "toggleBookmark", caller |-> c, code |-> 404]
            /\ UNCHANGED <<projects, activities>>
       ELSE /\ activities' = [activities EXCEPT ![c] = ToggledActivity(activities, c, p)]
            /\ UNCHANGED projects
            /\ resp' = [op |-> "toggleBookmark", caller |-> c, code |-> 200]
    /\ UNCHANGED <<users, requests, notifications, notifUp, inflight, nextId,
                   lastLike>>

toggleBookmark(c, p) ==
    /\ c \in Uids
    /\ LET project == FindProject(p) IN
       IF ~project.exists
       THEN /\ resp' = [op |-> "toggleBookmark", caller |-> c, code |-> 404]
            /\ UNCHANGED <<projects, activities>>
       ELSE /\ activities' = [activities EXCEPT ![c] = ToggledActivity(activities, c, p)]
            /\ projects' = [projects EXCEPT ![p] = ToggledProject(project, c)]
            /\ resp' = [op |-> "toggleBookmark", caller |-> c, code |-> 200]
    /\ UNCHANGED <<users, requests, notifications, notifUp, inflight, nextId,
                   lastLike>>

(***************************************************************************)
(* Bookmarks: u1 and u2 bookmark and un-bookmark projects 1 and 2 and a    *)
(* project that does not exist; u1 also views the projects, which creates  *)
(* an activity document without bookmarks.  The calls do not overlap.      *)
(***************************************************************************)
Bookmarkers == {"u1", "u2"}

InitBookmarks == InitRequests

NextBookmarks ==
    \/ \E c \in Bookmarkers, p \in Pids \cup {MissingPid} : toggleBookmark(c, p)
    \/ \E p \in Pids : NotViewedBy("u1", p) /\ trackView("u1", p)

SpecBookmarks == InitBookmarks /\ [][NextBookmarks]_vars

\* the project ids of the caller's bookmark list
BookmarkedIds(acts, c) ==
    {BookmarkedProjects(acts, c)[i].projectId :
        i \in 1..Len(BookmarkedProjects(acts, c))}

\* the two stores agree and no project is listed twice
BookmarksAgree ==
    \A c \in Bookmarkers :
       /\ \A p \in Pids :
             projects[p].exists =>
                (c \in Bookmarks(projects[p]) <=> p \in BookmarkedIds(activities, c))
       /\ Cardinality(BookmarkedIds(activities, c))
             = Len(BookmarkedProjects(activities, c))

\* C39 as stated: the stores agree, no project is listed twice, and a second
\* toggleBookmark of the same caller on the same project would leave the
\* caller's bookmarkedProjects list and the project's bookmarks set as they
\* were before the first
C39_DoubleToggleRestoresStores ==
    [][resp'.op = "toggleBookmark" =>
         /\ BookmarksAgree'
         /\ \A c \in Bookmarkers, p \in Pids :
               (toggleBookmark(c, p) /\ resp'.code = 200) =>
                  /\ BookmarkedProjects([activities' EXCEPT
                                           ![c] = ToggledActivity(activities', c, p)], c)
                        = BookmarkedProjects(activities, c)
                  /\ Bookmarks(ToggledProject(projects'[p], c))
                        = Bookmarks(projects[p])]_vars

\* C39: after any sequence of completed toggleBookmark calls caller u is in
\* project p's bookmarks exactly if p is in u's bookmarkedProjects, no
\* project is listed twice, and a second toggleBookmark of the same caller
\* on the same project would give both stores the members they had before
\* the first
C39_DoubleToggleRestoresMembership ==
    [][resp'.op = "toggleBookmark" =>
         /\ BookmarksAgree'
         /\ \A c \in Bookmarkers, p \in Pids :
               (toggleBookmark(c, p) /\ resp'.code = 200) =>
                  /\ BookmarkedIds([activities' EXCEPT
                                      ![c] = ToggledActivity(activities', c, p)], c)
                        = BookmarkedIds(activities, c)
                  /\ Bookmarks(ToggledProject(projects'[p], c))
                        = Bookmarks(projects[p])]_vars

\* u1 has bookmarked projects 1 and 2, taken the bookmark of 1 away and set
\* it again: project 1 is now listed after project 2
C39_Witness ==
    /\ resp = [op |-> "toggleBookmark", caller |-> "u1", code |-> 200]
    /\ BookmarkedProjects(activities, "u1") = <<[projectId |-> 2], [projectId |-> 1]>>
    /\ "u1" \in Bookmarks(projects[1])
    /\ "u1" \in Bookmarks(projects[2])
    /\ "u2" \in Bookmarks(projects[1])

====
